---- MODULE Spec2Model ----
(***************************************************************************)
(* GSIOC driver for the Gilson FC-203B fraction collector                  *)
(* (src/0129_gilson통신.py, class GilsonFC203B).                            *)
(*                                                                         *)
(* Bytes are integers 0..255 and strings are sequences of character codes. *)
(* Python's None for a string result is the empty sequence: the driver     *)
(* never returns an empty string ("''.join(r) if r else None"), and every  *)
(* caller tests the result by truthiness.                                  *)
(* The bus log records, in program order, every byte the driver writes     *)
(* (as b) and every byte it reads from the serial input (as 256 + b).      *)
(* Times are milliseconds.  Coordinates given to move_to_xy are hundredths *)
(* of a millimetre, so that x_mm * 10 need not be an integer.              *)
(***************************************************************************)
EXTENDS Integers, Sequences, FiniteSets, TLC

\* ---------------------------------------------------------------- constants
DISCONNECT_ALL == 255
ACK == 6
LF == 10
CR == 13

AddrBit == 128
ChHash == 35
ChDollar == 36
ChPercent == 37
ChMinus == 45
ChZero == 48
ChPlus == 43
ChM == 77
ChS == 83
ChX == 88
ChY == 89
ChUnused == 97
ChG == 71
ChT == 84
ChV == 86
ChOne == 49
ChLowerX == 120
ChLowerY == 121

AddrWait == 20
ImmTimeout == 1000
LfWait == 20
BusyBackoff == 100
CharWait == 10
CrWait == 50
PollSleep == 100
ImmSleep == 10
DefaultWaitTimeout == 10000
UnitsMax == 9999

\* A read of byte b, as it appears in the bus log, and the mark a flush of the
\* input buffer leaves in it.
RdBase == 2 * AddrBit
FlushEv == 2 * RdBase
Rd(b) == RdBase + b
IsWrite(v) == v < RdBase
Writes(log) == SelectSeq(log, IsWrite)

Min(a, b) == IF a < b THEN a ELSE b
Max(a, b) == IF a > b THEN a ELSE b

\* ------------------------------------------------------- number formatting
RECURSIVE Digits(_)
Digits(n) ==
    IF n < 10 THEN <<ChZero + n>> ELSE Append(Digits(n \div 10), ChZero + (n % 10))

RECURSIVE ZeroPad(_, _)
ZeroPad(s, w) ==
    IF Len(s) >= w THEN s ELSE ZeroPad(<<ChZero>> \o s, w)

\* Python's f"{n:0wd}": sign first, zero padded to a total width of w.
Fmt(n, w) ==
    IF n >= 0 THEN ZeroPad(Digits(n), w)
    ELSE <<ChMinus>> \o ZeroPad(Digits(-n), w - 1)

\* int(x_mm * 10) for x_mm = h / 100: truncation toward zero.
ToUnits(h) ==
    IF h >= 0 THEN h \div 10 ELSE -((-h) \div 10)

\* max(0, min(9999, u))
ClampUnits(u) ==
    Max(0, Min(UnitsMax, u))

\* ------------------------------------------------------------ the exchanges
\* What the device puts on the line in answer to the addressing byte:
\*   "ok"    the echo is in the input buffer when in_waiting is tested
\*   "none"  no echo at all
\*   "wrong" another byte has arrived instead
\*   "late"  the echo arrives after in_waiting was tested
EchoKinds == {"ok", "none", "wrong", "late"}

WrongByte(name) == IF name > AddrBit THEN name - 1 ELSE name + 1

AtCheck(e, name) ==
    CASE e = "ok" -> <<name>>
      [] e = "wrong" -> <<WrongByte(name)>>
      [] OTHER -> <<>>

AfterCheck(e, name) ==
    IF e = "late" THEN <<name>> ELSE <<>>

\* A flush that keeps the byte that arrived last.
FlushAllButNewest(q) ==
    IF q = <<>> THEN <<>> ELSE <<q[Len(q)]>>

\* A handshake that leaves the input buffer as it finds it.
FlushKeeps(q) == q

\* ser.reset_input_buffer()
Flush(q) == <<>>

\* An echo check satisfied by any byte at all.
EchoPresent(avail, name) ==
    avail # <<>>

\* The echo check of _connect_slave: a byte is waiting and it is the
\* addressing byte just written.
EchoMatches(avail, name) ==
    avail # <<>> /\ Head(avail) = name

\* A handshake that writes the addressing byte a second time when the echo
\* does not match.
ConnectSlaveRetry(serv, linkv, uid, q, e) ==
    IF serv = "None"
    THEN [exc |-> "AttributeError", bus |-> <<>>, ok |-> FALSE, rx |-> q, t |-> 0]
    ELSE IF serv = "closed" \/ ~linkv
    THEN [exc |-> "SerialException", bus |-> <<>>, ok |-> FALSE, rx |-> q, t |-> 0]
    ELSE LET name == uid + AddrBit
             avail == Flush(q) \o AtCheck(e, name)
             got == avail # <<>>
         IN  [exc |-> "none",
              bus |-> <<FlushEv, DISCONNECT_ALL, name>>
                        \o (IF got THEN <<Rd(Head(avail))>> ELSE <<>>)
                        \o (IF EchoMatches(avail, name) THEN <<>> ELSE <<name>>),
              ok |-> EchoMatches(avail, name),
              rx |-> (IF got THEN Tail(avail) ELSE <<>>) \o AfterCheck(e, name),
              t |-> 2 * AddrWait]

\* _connect_slave.  serv is the state of self.ser, linkv whether the serial
\* device still answers I/O, q the bytes waiting in the input buffer.
ConnectSlave(serv, linkv, uid, q, e) ==
    IF serv = "None"
    THEN [exc |-> "AttributeError", bus |-> <<>>, ok |-> FALSE, rx |-> q, t |-> 0]
    ELSE IF serv = "closed" \/ ~linkv
    THEN [exc |-> "SerialException", bus |-> <<>>, ok |-> FALSE, rx |-> q, t |-> 0]
    ELSE LET name == uid + AddrBit
             avail == Flush(q) \o AtCheck(e, name)
             got == avail # <<>>
         IN  [exc |-> "none",
              bus |-> <<FlushEv, DISCONNECT_ALL, name>>
                        \o (IF got THEN <<Rd(Head(avail))>> ELSE <<>>),
              ok |-> EchoMatches(avail, name),
              rx |-> (IF got THEN Tail(avail) ELSE <<>>) \o AfterCheck(e, name),
              t |-> 2 * AddrWait]

\* A receive loop that acknowledges the terminator as well.
RECURSIVE ImmLoopAckAll(_, _, _)
ImmLoopAckAll(q, acc, log) ==
    IF q = <<>>
    THEN [resp |-> acc, log |-> log, rx |-> <<>>, timedout |-> TRUE]
    ELSE LET b == Head(q)
         IN  IF b >= AddrBit
             THEN [resp |-> Append(acc, b - AddrBit), log |-> log \o <<Rd(b), ACK>>,
                   rx |-> Tail(q), timedout |-> FALSE]
             ELSE ImmLoopAckAll(Tail(q), Append(acc, b), log \o <<Rd(b), ACK>>)

\* The receive loop of _send_immediate over the bytes q that arrive within the
\* window, in order; when they run out before a terminator the loop sleeps on
\* to its deadline.
RECURSIVE ImmLoop(_, _, _)
ImmLoop(q, acc, log) ==
    IF q = <<>>
    THEN [resp |-> acc, log |-> log, rx |-> <<>>, timedout |-> TRUE]
    ELSE LET b == Head(q)
         IN  IF b >= AddrBit
             THEN [resp |-> Append(acc, b - AddrBit), log |-> Append(log, Rd(b)),
                   rx |-> Tail(q), timedout |-> FALSE]
             ELSE ImmLoop(Tail(q), Append(acc, b), log \o <<Rd(b), ACK>>)

\* An Immediate command given up when the re-addressing echo is not read back.
SendImmediateChecked(conn, serv, linkv, uid, q, ch, e, reply) ==
    IF ~conn
    THEN [exc |-> "none", bus |-> <<>>, res |-> <<>>, rx |-> q, t |-> 0]
    ELSE LET cs == ConnectSlave(serv, linkv, uid, q, e)
         IN  IF cs.exc # "none" \/ ~cs.ok
             THEN [exc |-> cs.exc, bus |-> cs.bus, res |-> <<>>, rx |-> cs.rx, t |-> cs.t]
             ELSE LET lp == ImmLoop(cs.rx \o reply, <<>>, <<>>)
                  IN  [exc |-> "none",
                       bus |-> cs.bus \o <<ch>> \o lp.log,
                       res |-> lp.resp,
                       rx |-> lp.rx,
                       t |-> cs.t + (IF lp.timedout THEN ImmTimeout ELSE 0)]

\* An Immediate command that writes its character without re-addressing.
SendImmediateUnaddressed(conn, serv, linkv, uid, q, ch, e, reply) ==
    IF ~conn
    THEN [exc |-> "none", bus |-> <<>>, res |-> <<>>, rx |-> q, t |-> 0]
    ELSE LET cs == ConnectSlave(serv, linkv, uid, q, e)
         IN  IF cs.exc # "none"
             THEN [exc |-> cs.exc, bus |-> cs.bus, res |-> <<>>, rx |-> cs.rx, t |-> cs.t]
             ELSE LET lp == ImmLoop(cs.rx \o reply, <<>>, <<>>)
                  IN  [exc |-> "none",
                       bus |-> <<ch>> \o lp.log,
                       res |-> lp.resp,
                       rx |-> lp.rx,
                       t |-> cs.t + (IF lp.timedout THEN ImmTimeout ELSE 0)]

\* _send_immediate(ch); reply is what the device sends in answer to ch.
SendImmediate(conn, serv, linkv, uid, q, ch, e, reply) ==
    IF ~conn
    THEN [exc |-> "none", bus |-> <<>>, res |-> <<>>, rx |-> q, t |-> 0]
    ELSE LET cs == ConnectSlave(serv, linkv, uid, q, e)
         IN  IF cs.exc # "none"
             THEN [exc |-> cs.exc, bus |-> cs.bus, res |-> <<>>, rx |-> cs.rx, t |-> cs.t]
             ELSE LET lp == ImmLoop(cs.rx \o reply, <<>>, <<>>)
                  IN  [exc |-> "none",
                       bus |-> cs.bus \o <<ch>> \o lp.log,
                       res |-> lp.resp,
                       rx |-> lp.rx,
                       t |-> cs.t + (IF lp.timedout THEN ImmTimeout ELSE 0)]

\* A handshake that repeats the Line-Feed on any answer at all.
LineFeedRetryAny(q, lf, lf2) ==
    LET q0 == q \o lf
        got == q0 # <<>>
        busy == got
    IN  [log |-> <<LF>> \o (IF got THEN <<Rd(Head(q0))>> ELSE <<>>)
                        \o (IF busy THEN <<LF>> ELSE <<>>),
         rx |-> (IF got THEN Tail(q0) ELSE q0) \o (IF busy THEN lf2 ELSE <<>>),
         t |-> LfWait + (IF busy THEN BusyBackoff + LfWait ELSE 0)]

\* The Line-Feed handshake of _send_buffered: q are the bytes already waiting,
\* lf what arrives within 20 ms of the first LF, lf2 what arrives after the
\* second.
LineFeed(q, lf, lf2) ==
    LET q0 == q \o lf
        got == q0 # <<>>
        busy == got /\ Head(q0) = ChHash
    IN  [log |-> <<LF>> \o (IF got THEN <<Rd(Head(q0))>> ELSE <<>>)
                        \o (IF busy THEN <<LF>> ELSE <<>>),
         rx |-> (IF got THEN Tail(q0) ELSE q0) \o (IF busy THEN lf2 ELSE <<>>),
         t |-> LfWait + (IF busy THEN BusyBackoff + LfWait ELSE 0)]

\* Which characters of a command the device echoes.
EchoModes == {"all", "none", "odd"}
Echoed(mode, i) ==
    CASE mode = "all" -> TRUE
      [] mode = "odd" -> i % 2 = 1
      [] OTHER -> FALSE

\* A character loop that gives up at the first character left without echo.
RECURSIVE BufCharsStrict(_, _, _, _, _)
BufCharsStrict(cmd, i, q, log, mode) ==
    IF i > Len(cmd)
    THEN [log |-> log, rx |-> q]
    ELSE LET c == cmd[i]
             q1 == IF Echoed(mode, i) THEN Append(q, c) ELSE q
         IN  IF q1 # <<>>
             THEN BufCharsStrict(cmd, i + 1, Tail(q1), log \o <<c, Rd(Head(q1))>>, mode)
             ELSE [log |-> Append(log, c), rx |-> q1]

\* The character loop of _send_buffered: write, wait, read one byte if any.
RECURSIVE BufChars(_, _, _, _, _)
BufChars(cmd, i, q, log, mode) ==
    IF i > Len(cmd)
    THEN [log |-> log, rx |-> q]
    ELSE LET c == cmd[i]
             q1 == IF Echoed(mode, i) THEN Append(q, c) ELSE q
         IN  IF q1 # <<>>
             THEN BufChars(cmd, i + 1, Tail(q1), log \o <<c, Rd(Head(q1))>>, mode)
             ELSE BufChars(cmd, i + 1, q1, Append(log, c), mode)

\* A command whose Carriage Return was never written.
SkipCR(log) ==
    log

\* The Carriage Return that ends a Buffered command.
WriteCR(log) ==
    Append(log, CR)

\* The value _send_buffered returns once the CR is written.
BufferedResult(lfr) == TRUE

\* A Buffered command sent whatever the connection state.
SendBufferedUnguarded(conn, serv, linkv, uid, q, cmd, e, d) ==
    LET cs == ConnectSlave(serv, linkv, uid, q, e)
    IN  IF cs.exc # "none"
        THEN [exc |-> cs.exc, bus |-> cs.bus, ok |-> FALSE, rx |-> cs.rx, t |-> cs.t]
        ELSE LET lfr == LineFeed(cs.rx, d.lf, d.lf2)
                 bc == BufChars(cmd, 1, lfr.rx, cs.bus \o lfr.log, d.echo)
             IN  [exc |-> "none",
                  bus |-> WriteCR(bc.log),
                  ok |-> BufferedResult(lfr),
                  rx |-> bc.rx,
                  t |-> cs.t + lfr.t + Len(cmd) * CharWait + CrWait]

\* _send_buffered(cmd); d = [lf, lf2, echo] is the device's behaviour.
SendBuffered(conn, serv, linkv, uid, q, cmd, e, d) ==
    IF ~conn
    THEN [exc |-> "none", bus |-> <<>>, ok |-> FALSE, rx |-> q, t |-> 0]
    ELSE LET cs == ConnectSlave(serv, linkv, uid, q, e)
         IN  IF cs.exc # "none"
             THEN [exc |-> cs.exc, bus |-> cs.bus, ok |-> FALSE, rx |-> cs.rx, t |-> cs.t]
             ELSE LET lfr == LineFeed(cs.rx, d.lf, d.lf2)
                      bc == BufChars(cmd, 1, lfr.rx, cs.bus \o lfr.log, d.echo)
                  IN  [exc |-> "none",
                       bus |-> WriteCR(bc.log),
                       ok |-> BufferedResult(lfr),
                       rx |-> bc.rx,
                       t |-> cs.t + lfr.t + Len(cmd) * CharWait + CrWait]

\* ------------------------------------------------------- motion vocabulary
\* x_cmd = f"X{x_units:04d}" of move_to_xy, for x_mm = h / 100.
AxisCmd(letter, h) ==
    <<letter>> \o Fmt(ClampUnits(ToUnits(h)), 4)

\* A test satisfied by one stationary axis.
StationaryEither(x_pos, y_pos) ==
    /\ x_pos # <<>>
    /\ y_pos # <<>>
    /\ (x_pos[1] = ChS \/ y_pos[1] = ChS)

\* The test of _wait_motion_complete on one iteration's two responses.
Stationary(x_pos, y_pos) ==
    /\ x_pos # <<>>
    /\ y_pos # <<>>
    /\ x_pos[1] = ChS
    /\ y_pos[1] = ChS

\* A status response <flag><unused><4 digits>, the last byte with its high bit set.
StatusReply(flag, units) ==
    LET s == <<flag, ChUnused>> \o Fmt(units, 4)
    IN  [i \in 1..Len(s) |-> IF i = Len(s) THEN s[i] + AddrBit ELSE s[i]]

\* Python's int() on a string of character codes: an optional sign and digits.
IsDigit(c) == c >= ChZero /\ c <= ChZero + 9

RECURSIVE DigitsValue(_, _)
DigitsValue(s, acc) ==
    IF s = <<>> THEN acc ELSE DigitsValue(Tail(s), acc * 10 + (Head(s) - ChZero))

ParseInt(s) ==
    LET signed == s # <<>> /\ Head(s) \in {ChMinus, ChPlus}
        body == IF signed THEN Tail(s) ELSE s
        good == body # <<>> /\ \A i \in 1..Len(body) : IsDigit(body[i])
    IN  [ok |-> good,
         v |-> IF ~good THEN 0
               ELSE IF signed /\ Head(s) = ChMinus THEN -DigitsValue(body, 0)
               ELSE DigitsValue(body, 0)]

\* A parse that starts one character early, on the unused position.
ValuePartFromUnused(p) ==
    SubSeq(p, 2, Len(p))

\* The part of a status response get_position parses: x_pos[2:].
ValuePart(p) == SubSeq(p, 3, Len(p))

\* One axis of get_position: <<>> is None, <<v>> is v / 10.0 mm.
AxisValue(p) ==
    IF p # <<>> /\ Len(p) >= 5 /\ ParseInt(ValuePart(p)).ok
    THEN <<ParseInt(ValuePart(p)).v>>
    ELSE <<>>

\* A get_position() that gives up both axes as soon as one fails to parse.
PositionAllOrNothing(xp, yp) ==
    IF AxisValue(xp) = <<>> \/ AxisValue(yp) = <<>>
    THEN <<<<>>, <<>>>>
    ELSE <<AxisValue(xp), AxisValue(yp)>>

\* The tuple get_position() returns for the responses xp and yp.
PositionOf(xp, yp) ==
    <<AxisValue(xp), AxisValue(yp)>>

\* ------------------------------------------------------------------- state
VARIABLES
    unit_id,    \* self.unit_id
    ser,        \* self.ser: "None", "open" or "closed"
    connected,  \* self.connected
    link,       \* whether the serial device still performs I/O
    rx,         \* unread bytes in the serial input buffer
    sentX,      \* the units last transmitted in an X and in a Y command, -1: none
    sentY,
    srcX,       \* the x_mm and y_mm they were computed from, in hundredths
    srcY,
    pc,         \* where the caller is: "idle", inside a call, or "done" with its result
    op,         \* the public operation running, or the last one that ran
    nth,        \* how many public calls have begun, counted up to 3
    exc,        \* how the call ended: "none", or the exception that escaped it
    ret,        \* what it returned: "True", "False" or "None"
    bret,       \* what the call's last _send_buffered returned
    bus,        \* the bus log of the call's last exchange phase
    ypend,      \* y_mm of the running move_to_xy until its Y command, in hundredths
    sent,       \* the bytes written by the Buffered commands of the call, until it polls
    wtimeout,   \* timeout of the running _wait_motion_complete
    elapsed,    \* time.time() - start at its last loop head
    istart,     \* the same at the head of the last iteration that polled
    x_pos,      \* the responses of the last status polls or position reads
    y_pos,
    wret,       \* what _wait_motion_complete returned
    quiet,      \* no status poll of the running wait has received a byte in reply
    npolls,     \* iterations of the running wait that polled a connected driver
    pos,        \* what get_position returned
    tube,       \* what get_tube returned, <<>> while no call has returned one
    tx,         \* PositionTeaching.x and .y, the tracked Position, in hundredths of mm
    ty,
    saved,      \* PositionTeaching.positions: the position last saved, <<>> while none is
    prev,       \* the tracked Position when the running move or goto was called
    apc,        \* where main() of the auto-collection program is
    cycle_count,    \* its cycle_count
    classification, \* the label of the running cycle, "" before the first
    positions,  \* the labels that have a Position in the loaded positions file
    disconnects,    \* how many times main() has called gilson.disconnect()
    moved,      \* the targets of the move_to_xy calls of the running cycle
    tpc,        \* per calling thread, how many serial operations of its command are done
    wire        \* the serial operations carried out for the threads, in order, as <<thread, op>>

session == <<unit_id, ser, connected, link>>
device == <<sentX, sentY, srcX, srcY>>
waiting == <<wtimeout, elapsed, istart, wret, quiet, npolls>>
result == <<exc, ret, bret, bus, ypend, sent, x_pos, y_pos, pos>>
threads == <<tpc, wire>>
auto == <<apc, cycle_count, classification, positions, disconnects, moved>>
client == <<tube, tx, ty, saved, prev, auto>>
vars == <<session, rx, device, pc, op, nth, waiting, result, threads, client>>

\* The default unit ID of the constructor.
UnitIds == {6}

\* The timeout, in ms, of a _wait_motion_complete called on its own.
TestTimeout == 1000
WaitTimeouts == {TestTimeout}

\* How many iterations of one wait are followed on a Connected driver.  Six
\* iterations of the shortest kind (180 ms) outlast TestTimeout, so a wait of
\* that length is followed to its end whatever the device does; the 10 s wait
\* of a move is followed to its timeout only along its slow iterations.
MaxPolls == 6

\* (x_mm, y_mm) given to move_to_xy, in hundredths of a millimetre.
XYInputs == {<<10000, 5000>>}

\* Callers that share one driver instance.
Threads == {1, 2}

Bool(b) == IF b THEN "True" ELSE "False"
Count(n) == IF n < 3 THEN n + 1 ELSE 3

NoResult ==
    /\ exc = "none"
    /\ ret = "None"
    /\ bret = "None"
    /\ bus = <<>>
    /\ ypend = 0
    /\ sent = <<>>
    /\ x_pos = <<>>
    /\ y_pos = <<>>
    /\ pos = <<<<>>, <<>>>>

NoWait ==
    /\ wtimeout = 0
    /\ elapsed = 0
    /\ istart = 0
    /\ wret = "None"
    /\ quiet = TRUE
    /\ npolls = 0

\* main() of the auto-collection program has not been started.
NotCollecting ==
    /\ apc = "off"
    /\ cycle_count = 1
    /\ classification = ""
    /\ positions = {}
    /\ disconnects = 0
    /\ moved = <<>>

\* The driver and its caller after GilsonFC203B(...) has been constructed.
Constructed ==
    /\ ser = "None"
    /\ connected = FALSE
    /\ link = TRUE
    /\ rx = <<>>
    /\ sentX = -1
    /\ sentY = -1
    /\ srcX = 0
    /\ srcY = 0
    /\ pc = "idle"
    /\ op = "init"
    /\ nth = 0
    /\ NoResult
    /\ NoWait
    /\ tpc = [t \in Threads |-> 0]
    /\ wire = <<>>
    /\ tube = <<>>
    /\ tx = 0
    /\ ty = 0
    /\ saved = <<>>
    /\ prev = <<>>

Fresh ==
    /\ Constructed
    /\ NotCollecting

Init ==
    /\ unit_id \in UnitIds
    /\ Fresh

\* A public call begins.
Begin(name) ==
    /\ pc = "idle"
    /\ op' = name
    /\ nth' = Count(nth)

\* The caller has taken the result of the finished call and goes on.
Finish ==
    /\ pc = "done"
    /\ pc' = "idle"
    /\ exc' = "none"
    /\ ret' = "None"
    /\ bret' = "None"
    /\ bus' = <<>>
    /\ ypend' = 0
    /\ sent' = <<>>
    /\ x_pos' = <<>>
    /\ y_pos' = <<>>
    /\ pos' = <<<<>>, <<>>>>
    /\ wtimeout' = 0
    /\ elapsed' = 0
    /\ istart' = 0
    /\ wret' = "None"
    /\ quiet' = TRUE
    /\ npolls' = 0
    /\ tube' = <<>>
    /\ prev' = <<>>
    /\ UNCHANGED <<threads, saved, session, rx, device, op, nth>>

Return ==
    /\ Finish
    /\ UNCHANGED <<tx, ty, auto>>

\* Replies to the version query '%' used while connecting.
VersionReplies == {<<>>, <<50, 48 + AddrBit>>, <<50>>}

\* A connect() that raised the flag before looking at the handshake.
FlagSetBeforeCheck(ok, was) ==
    TRUE

\* self.connected after the handshake of connect(): set on success, left as it
\* was on failure.
FlagAfterHandshake(ok, was) ==
    IF ok THEN TRUE ELSE was

\* connect().  opens: whether serial.Serial() can open the port.
Connect(opens, e, ve, vreply) ==
    /\ Begin("connect")
    /\ pc' = "done"
    /\ exc' = "none"
    /\ UNCHANGED <<threads, client, unit_id, link, device, waiting, bret, ypend, sent, x_pos,
                   y_pos, pos>>
    /\ IF ~(opens /\ link)
       THEN /\ ret' = "False"
            /\ bus' = <<>>
            /\ UNCHANGED <<ser, connected, rx>>
       ELSE LET cs == ConnectSlave("open", link, unit_id, rx, e)
                v == SendImmediate(TRUE, "open", link, unit_id, cs.rx,
                                   ChPercent, ve, vreply)
            IN  /\ connected' = FlagAfterHandshake(cs.ok, connected)
                /\ ser' = IF cs.ok THEN "open" ELSE "closed"
                /\ ret' = Bool(cs.ok)
                /\ bus' = IF cs.ok THEN cs.bus \o v.bus ELSE cs.bus
                /\ rx' = IF cs.ok THEN v.rx ELSE <<>>

\* disconnect(), as far as the driver goes.
DisconnectCall ==
    /\ Begin("disconnect")
    /\ pc' = "done"
    /\ ret' = "None"
    /\ UNCHANGED <<threads, unit_id, link, device, waiting, bret, ypend, sent, x_pos,
                   y_pos, pos>>
    /\ IF ser = "open"
       THEN IF link
            THEN /\ bus' = <<DISCONNECT_ALL>>
                 /\ ser' = "closed"
                 /\ connected' = FALSE
                 /\ rx' = <<>>
                 /\ exc' = "none"
            ELSE /\ bus' = <<>>
                 /\ exc' = "SerialException"
                 /\ UNCHANGED <<ser, connected, rx>>
       ELSE /\ bus' = <<>>
            /\ exc' = "none"
            /\ UNCHANGED <<ser, connected, rx>>

\* disconnect()
Disconnect ==
    /\ DisconnectCall
    /\ UNCHANGED client

\* What a device may do during a Buffered command.
LfAnswers == {<<>>, <<LF>>, <<ChHash>>}
BufDevices ==
    {d \in [lf : LfAnswers, lf2 : LfAnswers, echo : EchoModes] :
        d.lf = <<ChHash>> \/ d.lf2 = <<>>}

\* What a device may send in answer to a status query for an axis whose last
\* commanded value is u: nothing, a full response (stationary or moving), or
\* the flag alone with no terminator.
StatusReplies(u) ==
    LET v == IF u < 0 THEN 0 ELSE u
    IN  {<<>>, StatusReply(ChS, v), StatusReply(ChM, v), <<ChS>>}

\* What a device may send in answer to a position read: any of the above, a
\* response of full length that is not a number from its third character on
\* ("Sa1X0"), or a number of three digits ("Sa123").
PositionReplies(u) ==
    StatusReplies(u) \cup {<<ChS, ChUnused, ChOne, ChX, ChZero + AddrBit>>,
                           <<ChS, ChUnused, ChOne, 50, 51 + AddrBit>>}

\* move_to_xy(x_mm, y_mm), first half: conversion, clamping and the X command.
MoveToXY_X(x, y, e, d) ==
    LET sb == SendBuffered(connected, ser, link, unit_id, rx, AxisCmd(ChX, x), e, d)
    IN  /\ Begin("move_to_xy")
        /\ ret' = "None"
        /\ bret' = IF sb.exc = "none" THEN Bool(sb.ok) ELSE "None"
        /\ bus' = sb.bus
        /\ rx' = sb.rx
        /\ exc' = sb.exc
        /\ sent' = Writes(sb.bus)
        /\ sentX' = IF sb.ok THEN ClampUnits(ToUnits(x)) ELSE sentX
        /\ srcX' = IF sb.ok THEN x ELSE srcX
        /\ ypend' = IF sb.exc = "none" THEN y ELSE 0
        /\ pc' = IF sb.exc = "none" THEN "xy_y" ELSE "done"
        /\ UNCHANGED <<threads, tube, saved, session, sentY, srcY, waiting, x_pos, y_pos, pos>>

\* move_to_xy, second half: the Y command, then _wait_motion_complete() starts.
MoveToXY_Y(e, d) ==
    LET sb == SendBuffered(connected, ser, link, unit_id, rx, AxisCmd(ChY, ypend), e, d)
    IN  /\ pc = "xy_y"
        /\ bret' = IF sb.exc = "none" THEN Bool(sb.ok) ELSE "None"
        /\ bus' = sb.bus
        /\ rx' = sb.rx
        /\ exc' = sb.exc
        /\ sent' = sent \o Writes(sb.bus)
        /\ sentY' = IF sb.ok THEN ClampUnits(ToUnits(ypend)) ELSE sentY
        /\ srcY' = IF sb.ok THEN ypend ELSE srcY
        /\ ypend' = 0
        /\ pc' = IF sb.exc = "none" THEN "wait" ELSE "done"
        /\ wtimeout' = IF sb.exc = "none" THEN DefaultWaitTimeout ELSE 0
        /\ UNCHANGED <<threads, client, session, sentX, srcX, op, nth, ret, elapsed, istart,
                       wret, quiet,
                       npolls, x_pos, y_pos, pos>>

\* _wait_motion_complete(timeout) called on its own.
WaitMotionComplete(timeout) ==
    /\ Begin("wait_motion_complete")
    /\ pc' = "wait"
    /\ wtimeout' = timeout
    /\ UNCHANGED <<threads, client, session, rx, device, elapsed, istart, wret, quiet, npolls, result>>

\* One iteration of the polling loop, first half: the loop test and the X poll.
WaitPollX(e, reply) ==
    LET si == SendImmediate(connected, ser, link, unit_id, rx, ChX, e, reply)
    IN  /\ pc = "wait"
        /\ elapsed < wtimeout
        /\ connected => npolls < MaxPolls
        /\ npolls' = IF connected THEN npolls + 1 ELSE npolls
        /\ bus' = si.bus
        /\ rx' = si.rx
        /\ exc' = si.exc
        /\ x_pos' = si.res
        /\ sent' = <<>>
        /\ istart' = elapsed
        /\ elapsed' = elapsed + si.t
        /\ quiet' = (quiet /\ (reply = <<>> \/ si.exc # "none" \/ ~connected))
        /\ pc' = IF si.exc = "none" THEN "waitY" ELSE "done"
        /\ UNCHANGED <<threads, client, session, device, op, nth, ret, bret, ypend, wtimeout,
                       wret, y_pos, pos>>

\* Second half: the Y poll, the stationary test, and the sleep before the
\* next loop test.  The locals x_pos and y_pos and the log of the iteration
\* are kept when the loop ends here and dropped when it goes round again.
WaitPollY(e, reply) ==
    LET si == SendImmediate(connected, ser, link, unit_id, rx, ChY, e, reply)
        done == si.exc = "none" /\ Stationary(x_pos, si.res)
        over == done \/ si.exc # "none"
    IN  /\ pc = "waitY"
        /\ bus' = IF over THEN si.bus ELSE <<>>
        /\ rx' = si.rx
        /\ exc' = si.exc
        /\ x_pos' = IF over THEN x_pos ELSE <<>>
        /\ y_pos' = IF over THEN si.res ELSE <<>>
        /\ elapsed' = elapsed + si.t + (IF over THEN 0 ELSE PollSleep)
        /\ wret' = IF done THEN "True" ELSE wret
        /\ ret' = IF done /\ op = "wait_motion_complete" THEN "True" ELSE ret
        /\ quiet' = (quiet /\ (reply = <<>> \/ si.exc # "none" \/ ~connected))
        /\ pc' = IF over THEN "done" ELSE "wait"
        /\ UNCHANGED <<threads, client, session, device, op, nth, bret, ypend, sent, wtimeout,
                       istart, npolls, pos>>

\* A timeout that also gives the session up.
WaitTimeoutDisconnects ==
    /\ pc = "wait"
    /\ elapsed >= wtimeout
    /\ pc' = "done"
    /\ wret' = "False"
    /\ connected' = FALSE
    /\ ret' = IF op = "wait_motion_complete" THEN "False" ELSE ret
    /\ UNCHANGED <<threads, client, unit_id, ser, link, rx, device, op, nth, wtimeout, elapsed,
                   istart, quiet, npolls,
                   exc, bret, bus, ypend, sent, x_pos, y_pos, pos>>

\* A loop test that also gives up as soon as the driver is not connected.
WaitTimeoutOrOffline ==
    /\ pc = "wait"
    /\ (elapsed >= wtimeout \/ ~connected)
    /\ pc' = "done"
    /\ wret' = "False"
    /\ ret' = IF op = "wait_motion_complete" THEN "False" ELSE ret
    /\ UNCHANGED <<threads, client, session, rx, device, op, nth, wtimeout, elapsed, istart,
                   quiet, npolls,
                   exc, bret, bus, ypend, sent, x_pos, y_pos, pos>>

\* The loop test fails: _wait_motion_complete returns False.
WaitTimeout ==
    /\ pc = "wait"
    /\ elapsed >= wtimeout
    /\ pc' = "done"
    /\ wret' = "False"
    /\ ret' = IF op = "wait_motion_complete" THEN "False" ELSE ret
    /\ UNCHANGED <<threads, client, session, rx, device, op, nth, wtimeout, elapsed, istart,
                   quiet, npolls,
                   exc, bret, bus, ypend, sent, x_pos, y_pos, pos>>

\* get_position(), first half: the X read.
GetPosition_X(e, reply) ==
    LET si == SendImmediate(connected, ser, link, unit_id, rx, ChX, e, reply)
    IN  /\ Begin("get_position")
        /\ bus' = si.bus
        /\ rx' = si.rx
        /\ exc' = si.exc
        /\ x_pos' = si.res
        /\ pc' = IF si.exc = "none" THEN "gp_y" ELSE "done"
        /\ UNCHANGED <<threads, client, session, device, waiting, ret, bret, ypend, sent, y_pos, pos>>

\* get_position(), second half: the Y read and the parsing of both.
GetPosition_Y(e, reply) ==
    LET si == SendImmediate(connected, ser, link, unit_id, rx, ChY, e, reply)
    IN  /\ pc = "gp_y"
        /\ bus' = si.bus
        /\ rx' = si.rx
        /\ exc' = si.exc
        /\ y_pos' = si.res
        /\ pos' = IF si.exc = "none" THEN PositionOf(x_pos, si.res) ELSE pos
        /\ pc' = "done"
        /\ UNCHANGED <<threads, client, session, device, waiting, op, nth, ret, bret, ypend,
                       sent, x_pos>>

\* What a device may send in answer to the reset command '$'.
ResetReplies == {<<>>, <<ChDollar + AddrBit>>}

\* reset(), first half: the Immediate '$'.
Reset_Cmd(e, reply) ==
    LET si == SendImmediate(connected, ser, link, unit_id, rx, ChDollar, e, reply)
    IN  /\ Begin("reset")
        /\ bus' = si.bus
        /\ rx' = si.rx
        /\ exc' = si.exc
        /\ pc' = IF si.exc = "none" THEN "reset_addr" ELSE "done"
        /\ UNCHANGED <<threads, client, session, device, waiting, ret, bret, ypend, sent, x_pos,
                       y_pos, pos>>

\* reset(), second half: after the 2 s sleep, _connect_slave() is called
\* directly, whatever the state of the port, and its result is ignored.
Reset_Address(e) ==
    LET cs == ConnectSlave(ser, link, unit_id, rx, e)
    IN  /\ pc = "reset_addr"
        /\ bus' = cs.bus
        /\ rx' = cs.rx
        /\ exc' = cs.exc
        /\ pc' = "done"
        /\ UNCHANGED <<threads, client, session, device, waiting, op, nth, ret, bret, ypend, sent,
                       x_pos, y_pos, pos>>

\* max(1, min(999, tube_number)) written as f"T{tube_number:03d}", with an
\* upper limit of four digits.
TubeCmdWide(n) ==
    <<ChT>> \o Fmt(Max(1, Min(UnitsMax, n)), 3)

\* The command string of move_to_tube(tube_number).
TubeCmd(n) ==
    <<ChT>> \o Fmt(Max(1, Min(999, n)), 3)

\* A move_to_tube that returns as soon as its command is sent.
MoveToTubeNoWait(n, e, d) ==
    LET sb == SendBuffered(connected, ser, link, unit_id, rx, TubeCmd(n), e, d)
    IN  /\ Begin("move_to_tube")
        /\ ret' = "None"
        /\ bret' = IF sb.exc = "none" THEN Bool(sb.ok) ELSE "None"
        /\ bus' = sb.bus
        /\ rx' = sb.rx
        /\ exc' = sb.exc
        /\ sent' = Writes(sb.bus)
        /\ pc' = "done"
        /\ UNCHANGED <<threads, client, session, device, waiting, ypend, x_pos, y_pos, pos>>

\* move_to_tube(tube_number): the Buffered command, whose result is dropped;
\* the wait that follows is the polling loop with its default timeout.
MoveToTube(n, e, d) ==
    LET sb == SendBuffered(connected, ser, link, unit_id, rx, TubeCmd(n), e, d)
    IN  /\ Begin("move_to_tube")
        /\ ret' = "None"
        /\ bret' = IF sb.exc = "none" THEN Bool(sb.ok) ELSE "None"
        /\ bus' = sb.bus
        /\ rx' = sb.rx
        /\ exc' = sb.exc
        /\ sent' = Writes(sb.bus)
        /\ pc' = IF sb.exc = "none" THEN "wait" ELSE "done"
        /\ wtimeout' = IF sb.exc = "none" THEN DefaultWaitTimeout ELSE 0
        /\ UNCHANGED <<threads, client, session, device, ypend, elapsed, istart, wret, quiet,
                       npolls, x_pos, y_pos, pos>>

\* A get_tube() that reports an unparsable response as no tube at all.
TubeValueOrNone(resp) ==
    IF ParseInt(resp).ok THEN <<ParseInt(resp).v>> ELSE <<>>

\* What get_tube() returns for the response resp of the Immediate 'T'.
TubeValue(resp) ==
    IF resp # <<>> /\ ParseInt(resp).ok THEN <<ParseInt(resp).v>> ELSE <<0>>

\* get_tube()
GetTube(e, reply) ==
    LET si == SendImmediate(connected, ser, link, unit_id, rx, ChT, e, reply)
    IN  /\ Begin("get_tube")
        /\ bus' = si.bus
        /\ rx' = si.rx
        /\ exc' = si.exc
        /\ x_pos' = si.res
        /\ tube' = IF si.exc = "none" THEN TubeValue(si.res) ELSE <<>>
        /\ pc' = "done"
        /\ UNCHANGED <<threads, tx, ty, saved, prev, auto, session, device, waiting, ret, bret,
                       ypend,
                       sent, y_pos,
                       pos>>

\* The command string of beep(duration_sec), with the duration never clamped
\* from above.
BeepCmdUnclamped(h) ==
    <<ChG>> \o Fmt(Max(0, ToUnits(h)), 3)

\* The command string of beep(duration_sec), for duration_sec = h / 100.
BeepCmd(h) ==
    <<ChG>> \o Fmt(Max(0, Min(100, ToUnits(h))), 3)

\* The command string of set_divert(enable).
DivertCmd(enable) ==
    IF enable THEN <<ChV, ChOne>> ELSE <<ChV, ChZero>>

\* The command string of relax_motors().
RelaxCmd == <<ChM, ChLowerX, ChLowerY>>

\* beep, set_divert and relax_motors: one _send_buffered(cmd), its result
\* dropped, and nothing else.
Passthrough(name, cmd, e, d) ==
    LET sb == SendBuffered(connected, ser, link, unit_id, rx, cmd, e, d)
    IN  /\ Begin(name)
        /\ ret' = "None"
        /\ bret' = IF sb.exc = "none" THEN Bool(sb.ok) ELSE "None"
        /\ bus' = sb.bus
        /\ rx' = sb.rx
        /\ exc' = sb.exc
        /\ sent' = Writes(sb.bus)
        /\ pc' = "done"
        /\ UNCHANGED <<threads, client, session, device, waiting, ypend, x_pos, y_pos, pos>>

Beep(h, e, d) == Passthrough("beep", BeepCmd(h), e, d)
SetDivert(enable, e, d) == Passthrough("set_divert", DivertCmd(enable), e, d)
RelaxMotors(e, d) == Passthrough("relax_motors", RelaxCmd, e, d)

\* The serial device is unplugged or plugged back in between two calls.
LinkChange ==
    /\ pc = "idle"
    /\ link' = ~link
    /\ UNCHANGED <<threads, client, unit_id, ser, connected, rx, device, pc, op, nth, waiting, result>>

DoConnect ==
    \E opens \in BOOLEAN, e \in EchoKinds :
        IF opens /\ e = "ok"
        THEN \E ve \in EchoKinds, vr \in VersionReplies : Connect(opens, e, ve, vr)
        ELSE Connect(opens, e, "none", <<>>)

DoMoveToXY_X ==
    /\ \E xy \in XYInputs, e \in EchoKinds, d \in BufDevices : MoveToXY_X(xy[1], xy[2], e, d)
    /\ UNCHANGED <<tx, ty, prev, auto>>

DoMoveToXY_Y ==
    \E e \in EchoKinds, d \in BufDevices : MoveToXY_Y(e, d)

DoWaitMotionComplete ==
    \E t \in WaitTimeouts : WaitMotionComplete(t)

DoWaitPollX ==
    \E e \in EchoKinds, r \in StatusReplies(sentX) : WaitPollX(e, r)

DoWaitPollY ==
    \E e \in EchoKinds, r \in StatusReplies(sentY) : WaitPollY(e, r)

DoGetPosition_X ==
    \E e \in EchoKinds, r \in PositionReplies(sentX) : GetPosition_X(e, r)

DoGetPosition_Y ==
    \E e \in EchoKinds, r \in PositionReplies(sentY) : GetPosition_Y(e, r)

DoReset_Cmd ==
    \E e \in EchoKinds, r \in ResetReplies : Reset_Cmd(e, r)

DoReset_Address ==
    \E e \in EchoKinds : Reset_Address(e)

Next ==
    \/ DoConnect
    \/ Disconnect
    \/ LinkChange
    \/ Return
    \/ DoMoveToXY_X
    \/ DoMoveToXY_Y
    \/ DoWaitMotionComplete
    \/ DoWaitPollX
    \/ DoWaitPollY
    \/ WaitTimeout
    \/ DoGetPosition_X
    \/ DoGetPosition_Y
    \/ DoReset_Cmd
    \/ DoReset_Address

Spec == Init /\ [][Next]_vars

\* Two threads call commands on one Connected driver at the same time.  The
\* class holds no lock, and every serial call (a flush, a write) may be
\* followed by a thread switch, so each thread carries out the serial
\* operations of its command one at a time, in any interleaving.  The device
\* is silent, which leaves the flush and the writes of each command.
SilentDevice == [lf |-> <<>>, lf2 |-> <<>>, echo |-> "none"]

\* Thread 1 runs _send_immediate('X'), thread 2 _send_buffered("Y0500").
ThreadProgram(t) ==
    IF t = 1
    THEN SendImmediate(connected, ser, link, unit_id, rx, ChX, "none", <<>>).bus
    ELSE SendBuffered(connected, ser, link, unit_id, rx, AxisCmd(ChY, 5000),
                      "none", SilentDevice).bus

ThreadStep(t) ==
    /\ pc = "idle"
    /\ connected
    /\ tpc[t] < Len(ThreadProgram(t))
    /\ tpc' = [tpc EXCEPT ![t] = @ + 1]
    /\ wire' = Append(wire, <<t, ThreadProgram(t)[tpc[t] + 1]>>)
    /\ UNCHANGED <<client, session, rx, device, pc, op, nth, waiting, result>>

\* The driver once connect() has succeeded and returned.
InitThreads ==
    /\ unit_id \in UnitIds
    /\ ser = "open"
    /\ connected = TRUE
    /\ link = TRUE
    /\ rx = <<>>
    /\ sentX = -1
    /\ sentY = -1
    /\ srcX = 0
    /\ srcY = 0
    /\ pc = "idle"
    /\ op = "connect"
    /\ nth = 1
    /\ NoResult
    /\ NoWait
    /\ tpc = [t \in Threads |-> 0]
    /\ wire = <<>>
    /\ tube = <<>>
    /\ tx = 0
    /\ ty = 0
    /\ saved = <<>>
    /\ prev = <<>>
    /\ NotCollecting

NextThreads ==
    \/ ThreadStep(1)
    \/ ThreadStep(2)

SpecThreads == InitThreads /\ [][NextThreads]_vars

\* The session operations alone, for every unit ID.
InitAllUnits ==
    /\ unit_id \in 0..63
    /\ Fresh

NextSession ==
    \/ DoConnect
    \/ Disconnect
    \/ LinkChange
    \/ Return

SpecSession == InitAllUnits /\ [][NextSession]_vars

\* move_to_xy and get_position over many coordinates, against a device that
\* follows the protocol: it echoes the addressing byte, the Line-Feed and every
\* character, and answers a status query with the value last commanded.
NumCoords == {-500, -4, 0, 4, 5000, 5006, 10000, 99990, 99996, 150000}
NumDevice == [lf |-> <<LF>>, lf2 |-> <<>>, echo |-> "all"]
NumFlags == {ChS, ChM}

NumConnect == Connect(TRUE, "ok", "ok", <<50, 48 + AddrBit>>)
NumMoveToXY_X ==
    /\ \E x \in NumCoords : \E y \in {x, 5000, -500} : MoveToXY_X(x, y, "ok", NumDevice)
    /\ UNCHANGED <<tx, ty, prev, auto>>
NumMoveToXY_Y == MoveToXY_Y("ok", NumDevice)
NumWaitPollX == WaitPollX("ok", StatusReply(ChS, Max(sentX, 0)))
NumWaitPollY == WaitPollY("ok", StatusReply(ChS, Max(sentY, 0)))
NumGetPosition_X == \E f \in NumFlags : GetPosition_X("ok", StatusReply(f, Max(sentX, 0)))
NumGetPosition_Y == \E f \in NumFlags : GetPosition_Y("ok", StatusReply(f, Max(sentY, 0)))

\* Responses of a device that reports five digits ("Sa12345") or a signed
\* value ("Sa-123").
WideReplies ==
    {<<ChS, ChUnused, ChOne, 50, 51, 52, 53 + AddrBit>>,
     <<ChS, ChUnused, ChMinus, ChOne, 50, 51 + AddrBit>>}
WideGetPosition_X == \E r \in WideReplies : GetPosition_X("ok", r)
WideGetPosition_Y == \E r \in WideReplies \cup {StatusReply(ChS, Max(sentY, 0))} : GetPosition_Y("ok", r)

NextNum ==
    \/ NumConnect
    \/ Return
    \/ NumMoveToXY_X
    \/ NumMoveToXY_Y
    \/ NumWaitPollX
    \/ NumWaitPollY
    \/ NumGetPosition_X
    \/ NumGetPosition_Y
    \/ WideGetPosition_X
    \/ WideGetPosition_Y

SpecNum == Init /\ [][NextNum]_vars

\* The utility calls, against a device that answers the Line-Feed at once
\* with echoes, one that is busy twice and echoes nothing, and one that
\* stays silent at the Line-Feed and echoes every other character.
UtilDevices ==
    {NumDevice,
     [lf |-> <<ChHash>>, lf2 |-> <<ChHash>>, echo |-> "none"],
     [lf |-> <<>>, lf2 |-> <<>>, echo |-> "odd"]}
UtilEchoes == {"ok", "none"}
TubeInputs == {-3, 0, 1, 42, 999, 1000, 5000}
BeepInputs == {-50, 0, 5, 50, 125, 999, 1000, 1005, 2000}

\* Answers to the Immediate 'T': nothing, "012", "12" with no terminator,
\* "-1", and the letter "a".
TubeReplies ==
    {<<>>, <<ChZero, ChOne, 50 + AddrBit>>, <<ChOne, 50>>, <<ChMinus, ChOne + AddrBit>>,
     <<ChUnused + AddrBit>>}

UtilConnect == \E e \in UtilEchoes : Connect(TRUE, e, "ok", <<50, 48 + AddrBit>>)
UtilMoveToTube == \E n \in TubeInputs, e \in UtilEchoes, d \in UtilDevices : MoveToTube(n, e, d)
UtilGetTube == \E e \in UtilEchoes, reply \in TubeReplies : GetTube(e, reply)
UtilBeep == \E h \in BeepInputs, e \in UtilEchoes, d \in UtilDevices : Beep(h, e, d)
UtilSetDivert == \E enable \in BOOLEAN, e \in UtilEchoes, d \in UtilDevices : SetDivert(enable, e, d)
UtilRelaxMotors == \E e \in UtilEchoes, d \in UtilDevices : RelaxMotors(e, d)
UtilMoveToXY_X ==
    /\ \E xy \in XYInputs, e \in UtilEchoes, d \in UtilDevices : MoveToXY_X(xy[1], xy[2], e, d)
    /\ UNCHANGED <<tx, ty, prev, auto>>
UtilMoveToXY_Y == \E e \in UtilEchoes, d \in UtilDevices : MoveToXY_Y(e, d)

NextUtil ==
    \/ UtilConnect
    \/ Disconnect
    \/ LinkChange
    \/ Return
    \/ UtilMoveToTube
    \/ NumWaitPollX
    \/ NumWaitPollY
    \/ WaitTimeout
    \/ UtilGetTube
    \/ UtilBeep
    \/ UtilSetDivert
    \/ UtilRelaxMotors
    \/ UtilMoveToXY_X
    \/ UtilMoveToXY_Y
    \/ NumGetPosition_X
    \/ NumGetPosition_Y

SpecUtil == Init /\ [][NextUtil]_vars

\* ------------------------------------------------------ the teaching layer
\* PositionTeaching keeps its own x and y (tx, ty, in hundredths of a
\* millimetre) beside the driver and moves the head through move_to_xy.

\* move(dx, dy): the tracked Position is advanced, cut off at 0 only, and then
\* handed to move_to_xy, whose outcome is not looked at.
TeachMove(dx, dy, e, d) ==
    LET nx == Max(0, tx + dx)
        ny == Max(0, ty + dy)
    IN  /\ tx' = nx
        /\ ty' = ny
        /\ prev' = <<tx, ty>>
        /\ MoveToXY_X(nx, ny, e, d)
        /\ UNCHANGED auto

\* goto(x, y)
TeachGoto(x, y, e, d) ==
    LET nx == Max(0, x)
        ny == Max(0, y)
    IN  /\ tx' = nx
        /\ ty' = ny
        /\ prev' = <<tx, ty>>
        /\ MoveToXY_X(nx, ny, e, d)
        /\ UNCHANGED auto

\* save_position(name), reached from run(), which main() enters only once
\* connect() has succeeded.
SavePosition ==
    /\ pc = "idle"
    /\ connected
    /\ saved' = <<tx, ty>>
    /\ UNCHANGED <<threads, tube, tx, ty, prev, auto, session, rx, device, pc, op, nth,
                   waiting, result>>

\* goto_saved(name)
GotoSaved(e, d) ==
    /\ saved # <<>>
    /\ TeachGoto(saved[1], saved[2], e, d)

\* connect(): after gilson.connect() has succeeded the position is read, and
\* each axis that was read replaces the tracked coordinate.
TeachAdopt ==
    /\ op = "get_position"
    /\ exc = "none"
    /\ connected
    /\ Finish
    /\ UNCHANGED auto
    /\ tx' = IF pos[1] # <<>> THEN 10 * pos[1][1] ELSE tx
    /\ ty' = IF pos[2] # <<>> THEN 10 * pos[2][1] ELSE ty

\* The step of run() explored (20 mm), the absolute targets (home and a
\* position at the end of the X range), and how far from a target relative
\* moves are followed.
TeachStep == 20 * 100
GotoInputs == {<<0, 0>>, <<10 * UnitsMax, 5000>>}
MaxDrift == 2000
MoveInputs == {<<TeachStep, 0>>, <<-TeachStep, 0>>, <<0, TeachStep>>, <<0, -TeachStep>>}

NearTarget(x, y) ==
    \E g \in GotoInputs : Max(x - g[1], g[1] - x) + Max(y - g[2], g[2] - y) <= MaxDrift

\* The device of the teaching session: well behaved, or silent for a whole
\* iteration of the polling loop.
TeachReplies(u) == {<<>>, StatusReply(ChS, Max(u, 0))}

TeachConnect ==
    /\ ~connected
    /\ \E e \in UtilEchoes : Connect(TRUE, e, "ok", <<50, 48 + AddrBit>>)
TeachGetPosition_X == \E r \in TeachReplies(sentX) : GetPosition_X("ok", r)
TeachGetPosition_Y == \E r \in TeachReplies(sentY) : GetPosition_Y("ok", r)
DoTeachMove ==
    \E m \in MoveInputs :
        /\ NearTarget(Max(0, tx + m[1]), Max(0, ty + m[2]))
        /\ TeachMove(m[1], m[2], "ok", NumDevice)
DoTeachGoto == \E g \in GotoInputs : TeachGoto(g[1], g[2], "ok", NumDevice)
DoGotoSaved == GotoSaved("ok", NumDevice)
TeachWaitPollX == \E r \in TeachReplies(sentX) : WaitPollX("ok", r)
TeachWaitPollY ==
    WaitPollY("ok", IF x_pos = <<>> THEN <<>> ELSE StatusReply(ChS, Max(sentY, 0)))

NextTeach ==
    \/ TeachConnect
    \/ Return
    \/ TeachGetPosition_X
    \/ TeachGetPosition_Y
    \/ TeachAdopt
    \/ DoTeachMove
    \/ DoTeachGoto
    \/ SavePosition
    \/ DoGotoSaved
    \/ NumMoveToXY_Y
    \/ TeachWaitPollX
    \/ TeachWaitPollY
    \/ WaitTimeout

SpecTeach == Init /\ [][NextTeach]_vars

\* ------------------------------------------- the receive loop, step by step
\* get_version() is _send_immediate('%'); here its receive loop is followed one
\* iteration at a time, against a device that at every iteration may have sent
\* nothing more, one more byte without the high bit, or a terminator.  The
\* response is collected in x_pos and the time since the deadline was set in
\* elapsed.  An iteration that reads a byte takes ByteTime (a byte at 19200
\* baud is on the wire for about half a millisecond, its ACK as long again).
ByteTime == 1
MaxGap == 20
RecvInputs == {<<>>, <<ChS>>, <<ChS + AddrBit>>}

\* The handshake and the command character.
GetVersion_Send(e) ==
    LET cs == ConnectSlave(ser, link, unit_id, rx, e)
    IN  /\ Begin("get_version")
        /\ elapsed' = 0
        /\ x_pos' = <<>>
        /\ UNCHANGED <<threads, client, session, device, wtimeout, istart, wret, quiet, npolls,
                       ret, bret, ypend, sent, y_pos, pos>>
        /\ IF ~connected
           THEN /\ pc' = "done"
                /\ UNCHANGED <<exc, bus, rx>>
           ELSE /\ exc' = cs.exc
                /\ rx' = cs.rx
                /\ bus' = IF cs.exc = "none" THEN Append(cs.bus, ChPercent) ELSE cs.bus
                /\ pc' = IF cs.exc = "none" THEN "recv" ELSE "done"

\* One iteration of the loop: the byte waiting is read (and acknowledged, or
\* taken as the last one), or the loop sleeps.
GetVersion_Recv(arrived) ==
    LET avail == rx \o arrived
    IN  /\ pc = "recv"
        /\ elapsed < ImmTimeout
        /\ UNCHANGED <<threads, client, session, device, wtimeout, istart, wret, quiet, npolls,
                       op, nth, exc, ret, bret, ypend, sent, y_pos, pos>>
        /\ IF avail = <<>>
           THEN /\ elapsed' = elapsed + ImmSleep
                /\ UNCHANGED <<pc, rx, bus, x_pos>>
           ELSE /\ rx' = Tail(avail)
                /\ elapsed' = elapsed + ByteTime
                /\ IF Head(avail) >= AddrBit
                   THEN /\ x_pos' = Append(x_pos, Head(avail) - AddrBit)
                        /\ bus' = Append(bus, Rd(Head(avail)))
                        /\ pc' = "done"
                   ELSE /\ x_pos' = Append(x_pos, Head(avail))
                        /\ bus' = bus \o <<Rd(Head(avail)), ACK>>
                        /\ pc' = "recv"

\* A deadline that ends the loop only while nothing has been received.
GetVersion_DeadlineOnlyEmpty ==
    /\ pc = "recv"
    /\ elapsed >= ImmTimeout
    /\ x_pos = <<>>
    /\ pc' = "done"
    /\ UNCHANGED <<threads, client, session, rx, device, waiting, op, nth, result>>

\* The loop test fails: the deadline has passed.
GetVersion_Deadline ==
    /\ pc = "recv"
    /\ elapsed >= ImmTimeout
    /\ pc' = "done"
    /\ UNCHANGED <<threads, client, session, rx, device, waiting, op, nth, result>>

\* The devices followed: one that never answers, and one that begins to
\* answer within MaxGap of the command and from then on has a byte waiting at
\* every iteration, for as long as the loop runs or up to a terminator.
DoGetVersion_Send == \E e \in {"ok", "late"} : GetVersion_Send(e)
DoGetVersion_Recv ==
    \E b \in RecvInputs :
        /\ b = <<>> => x_pos = <<>>
        /\ (b # <<>> /\ x_pos = <<>>) => elapsed <= MaxGap
        /\ GetVersion_Recv(b)
LiveWaitMotionComplete == WaitMotionComplete(TestTimeout)

NextLive ==
    \/ DoGetVersion_Send
    \/ DoGetVersion_Recv
    \/ GetVersion_Deadline
    \/ LiveWaitMotionComplete
    \/ DoWaitPollX
    \/ DoWaitPollY
    \/ WaitTimeout
    \/ Return
    \/ Disconnect

\* The code of a call, once begun, runs on: each step of a loop that can be
\* taken is taken.
SpecLive ==
    /\ InitThreads
    /\ [][NextLive]_vars
    /\ WF_vars(DoGetVersion_Recv)
    /\ WF_vars(GetVersion_Deadline)
    /\ WF_vars(DoWaitPollX)
    /\ WF_vars(DoWaitPollY)
    /\ WF_vars(WaitTimeout)

\* ================================================================== claims

\* No write of a call begun now can fail: the serial device answers, or the
\* driver holds no open handle to write to.
TransportOK == link \/ ser # "open"

\* C1: for every unit ID 0..63, on a freshly constructed driver, connect()
\* followed immediately by disconnect() leaves connected == False and raises
\* nothing, whether the handshake of connect() succeeded, failed, or the port
\* could not be opened.
C1_ConnectThenDisconnect ==
    [][(nth = 1 /\ op = "connect" /\ pc = "idle" /\ TransportOK /\ Disconnect)
        => (~connected' /\ exc' = "none")]_vars

C1_Witness ==
    /\ unit_id = 63
    /\ nth = 2
    /\ op = "disconnect"
    /\ pc = "done"
    /\ exc = "none"
    /\ bus = <<DISCONNECT_ALL>>
    /\ ser = "closed"
    /\ ~connected

\* C2 (as claimed): disconnect() is idempotent; in particular the state is
\* Disconnected once a disconnect() has returned without error.
C2_DisconnectedAfterDisconnect ==
    (op = "disconnect" /\ pc = "done" /\ exc = "none") => ~connected

\* C3 (as claimed): in every reachable state disconnect() writes the
\* disconnect-all byte when a session was Connected and returns with the
\* state Disconnected.
C3_DisconnectTearsDown ==
    [][(TransportOK /\ Disconnect)
        => /\ connected => bus' = <<DISCONNECT_ALL>>
           /\ ~connected']_vars

\* The bytes a complete Buffered command puts on the bus: the addressing, the
\* Line-Feeds lfs, the command string, the Carriage Return.
Frame(uid, lfs, cmd) ==
    <<DISCONNECT_ALL, uid + AddrBit>> \o lfs \o cmd \o <<CR>>

\* s is one complete Buffered axis command: letter and exactly four digits.
IsAxisFrame(s, letter) ==
    \E lfs \in {<<LF>>, <<LF, LF>>} :
        /\ Len(s) = Len(lfs) + 8
        /\ LET cmd == SubSeq(s, Len(lfs) + 3, Len(lfs) + 7)
           IN  /\ cmd[1] = letter
               /\ \A i \in 2..5 : IsDigit(cmd[i])
               /\ s = Frame(unit_id, lfs, cmd)

\* A move_to_xy on a Connected driver that no exception has ended.
MoveRunning == op = "move_to_xy" /\ connected /\ exc = "none"

\* C4: move_to_xy on a Connected driver writes the complete Buffered X command
\* (addressing, LF, 'X' + 4 digits, CR) before any byte of the Y command; when
\* the wait begins exactly one X frame followed by one Y frame has been
\* written, and the polls that follow write no LF and no CR.
C4_XBeforeY ==
    MoveRunning =>
        /\ pc = "xy_y" => IsAxisFrame(sent, ChX)
        /\ (pc = "wait" /\ npolls = 0) =>
               \E k \in {9, 10} :
                   /\ Len(sent) > k
                   /\ IsAxisFrame(SubSeq(sent, 1, k), ChX)
                   /\ IsAxisFrame(SubSeq(sent, k + 1, Len(sent)), ChY)
        /\ npolls > 0 => \A i \in 1..Len(bus) : bus[i] \notin {LF, CR}

C4_Witness ==
    /\ MoveRunning
    /\ pc = "wait"
    /\ npolls = 0
    /\ sent = Frame(unit_id, <<LF, LF>>, AxisCmd(ChX, 10000))
                \o Frame(unit_id, <<LF>>, AxisCmd(ChY, 5000))

\* round(x_mm * 10) for x_mm = h / 100, as Python rounds: to nearest, ties to even.
RoundUnits(h) ==
    LET q == h \div 10
        r == h % 10
    IN  IF r < 5 THEN q
        ELSE IF r > 5 THEN q + 1
        ELSE IF q % 2 = 0 THEN q ELSE q + 1

RoundedCmd(letter, h) ==
    <<letter>> \o Fmt(ClampUnits(RoundUnits(h)), 4)

\* C5 (as claimed): for every input, each axis is clamped independently and
\* the transmitted X and Y commands carry round(x_mm*10) and round(y_mm*10)
\* clamped to [0, 9999], as exactly 4 zero-padded digits.
C5_RoundedAndClamped ==
    MoveRunning =>
        /\ pc = "xy_y" => Writes(bus) = Frame(unit_id, <<LF>>, RoundedCmd(ChX, srcX))
        /\ (pc = "wait" /\ npolls = 0) =>
               Writes(bus) = Frame(unit_id, <<LF>>, RoundedCmd(ChY, srcY))

\* The status response in which the device reports units for an axis, as the
\* driver receives it.
Reported(p, units) ==
    \E f \in NumFlags : p = <<f, ChUnused>> \o Fmt(units, 4)

InRange(h) == h >= 0 /\ h <= 10 * UnitsMax

Abs(n) == IF n < 0 THEN -n ELSE n

\* C10: for x and y in [0, 999.9] mm, if after move_to_xy(x, y) the device
\* reports for each axis <flag><unused><4 digits> with the value last
\* transmitted for it, get_position() returns (x', y') with |x' - x| <= 0.1
\* and |y' - y| <= 0.1.  Values are compared in hundredths of a millimetre.
C10_RoundTrip ==
    (/\ op = "get_position" /\ pc = "done" /\ exc = "none"
     /\ sentX >= 0 /\ sentY >= 0
     /\ InRange(srcX) /\ InRange(srcY)
     /\ Reported(x_pos, sentX) /\ Reported(y_pos, sentY))
    => /\ pos[1] # <<>>
       /\ pos[2] # <<>>
       /\ Abs(10 * pos[1][1] - srcX) <= 10
       /\ Abs(10 * pos[2][1] - srcY) <= 10

C10_Witness ==
    /\ op = "get_position"
    /\ pc = "done"
    /\ srcX = 5006
    /\ srcY = 5000
    /\ Reported(x_pos, sentX)
    /\ Reported(y_pos, sentY)
    /\ pos = <<<<500>>, <<500>>>>

\* A Buffered command of move_to_xy has just returned; bus holds its log.
AfterX == MoveRunning /\ pc = "xy_y"
AfterY == MoveRunning /\ pc = "wait" /\ npolls = 0
BufferedDone == AfterX \/ AfterY

IsLF(v) == v = LF
LFCount(log) == Len(SelectSeq(log, IsLF))

FirstLF(log) ==
    CHOOSE i \in 1..Len(log) : log[i] = LF /\ \A j \in 1..(i - 1) : log[j] # LF

\* The byte read right after the first Line-Feed was '#'.
AnsweredBusy(log) ==
    LET i == FirstLF(log)
    IN  Len(log) > i /\ log[i + 1] = Rd(ChHash)

\* ... and so was the byte read after the repeated Line-Feed: it is the next
\* byte the driver reads, after writing the first command character.
BothBusy(log) ==
    LET i == FirstLF(log)
    IN  /\ AnsweredBusy(log)
        /\ Len(log) >= i + 4
        /\ log[i + 2] = LF
        /\ log[i + 4] = Rd(ChHash)

\* C6: no Buffered command writes LF more than twice, and it writes LF twice
\* only when the byte read after the first LF was '#'; when the first LF is
\* answered '#' and the second is accepted, LF is written exactly twice, the
\* whole command string and the CR are still written, and the command
\* reports success.
C6_BusyRetry ==
    BufferedDone =>
        /\ LFCount(bus) \in {1, 2}
        /\ LFCount(bus) = 2 => AnsweredBusy(bus)
        /\ (AnsweredBusy(bus) /\ ~BothBusy(bus)) =>
               /\ LFCount(bus) = 2
               /\ Len(Writes(bus)) = 10
               /\ IsAxisFrame(Writes(bus), IF AfterX THEN ChX ELSE ChY)
               /\ bret = "True"

C6_Witness ==
    /\ AfterX
    /\ AnsweredBusy(bus)
    /\ ~BothBusy(bus)
    /\ bret = "True"
    /\ Writes(bus) = Frame(unit_id, <<LF, LF>>, AxisCmd(ChX, 10000))

\* C7 (as claimed): when both the first and the repeated Line-Feed are
\* answered '#', the Buffered command reports failure to its caller.
C7_SecondBusyFails ==
    (BufferedDone /\ BothBusy(bus)) => bret = "False"

\* C8: _wait_motion_complete returns True only from an iteration begun within
\* the timeout in which both status responses are non-empty and start with
\* 'S'; it returns False only once the timeout has passed without one.
C8_TrueOnlyWhenBothStationary ==
    /\ wret = "True" =>
          /\ pc = "done"
          /\ istart < wtimeout
          /\ x_pos # <<>> /\ x_pos[1] = ChS
          /\ y_pos # <<>> /\ y_pos[1] = ChS
    /\ wret = "False" =>
          /\ pc = "done"
          /\ elapsed >= wtimeout

C8_Witness ==
    /\ op = "wait_motion_complete"
    /\ pc = "done"
    /\ wret = "True"
    /\ ret = "True"
    /\ istart > 0
    /\ x_pos = <<ChS>>
    /\ Len(y_pos) = 6

\* How far from the timeout "approximately" reaches.
ApproxTol == TestTimeout \div 2

\* C9 (as claimed): against a device that answers no Immediate command,
\* wait_motion_complete(timeout = 1 s) on a Connected driver returns False
\* after approximately 1 second.
C9_SilentDeviceAboutOneSecond ==
    (/\ op = "wait_motion_complete" /\ pc = "done"
     /\ connected /\ exc = "none" /\ wtimeout = TestTimeout /\ quiet)
    => /\ wret = "False"
       /\ elapsed >= wtimeout
       /\ elapsed <= wtimeout + ApproxTol

\* The log of a handshake that read back the addressing byte.
VerifiedHandshake(uid) ==
    <<FlushEv, DISCONNECT_ALL, uid + AddrBit, Rd(uid + AddrBit)>>

\* C11: the connection state starts Disconnected, and it becomes Connected
\* only in a connect() whose addressing handshake read back unit_id + 128; no
\* other operation sets it.
C11_ConnectedOnlyByVerifiedHandshake ==
    [][/\ nth = 0 => ~connected
       /\ (~connected /\ connected') =>
              /\ op' = "connect"
              /\ pc' = "done"
              /\ ret' = "True"
              /\ Len(bus') >= 4
              /\ SubSeq(bus', 1, 4) = VerifiedHandshake(unit_id)]_vars

C11_Witness ==
    /\ nth = 1
    /\ op = "connect"
    /\ pc = "done"
    /\ connected
    /\ ser = "open"
    /\ SubSeq(bus, 1, 4) = VerifiedHandshake(unit_id)

\* connect() has returned False after a handshake that was carried out.
ConnectRefused ==
    op = "connect" /\ pc = "done" /\ ret = "False" /\ bus # <<>>

\* C12 (as claimed): whenever connect() returns failure because the echo was
\* absent or mismatched, the state is Disconnected, from whatever state
\* connect() was called.
C12_RefusedMeansDisconnected ==
    ConnectRefused => ~connected

\* The operations that carry out Immediate or Buffered commands.
CommandOps == {"move_to_xy", "wait_motion_complete", "get_position"}

\* C13 (as claimed): a bus I/O error during the handshake, an Immediate or a
\* Buffered command of an operation resets the state to Disconnected.
C13_IOErrorDisconnects ==
    (op \in CommandOps /\ pc = "done" /\ exc = "SerialException") => ~connected

\* C14 (as claimed): when the write of the disconnect-all byte fails,
\* disconnect() still returns normally and the state is Disconnected.
C14_DisconnectNeverFails ==
    [][(Disconnect /\ ser = "open" /\ ~link)
        => (exc' = "none" /\ ~connected')]_vars

\* Where the exchange that log[i] belongs to began: the last flush before i.
LastFlush(log, i) ==
    LET fs == {j \in 1..(i - 1) : log[j] = FlushEv}
    IN  IF fs = {} THEN 0 ELSE CHOOSE j \in fs : \A k \in fs : k <= j

\* Every byte written in log is the disconnect-all byte or the addressing
\* byte of its exchange, or comes after both.
Addressed(log) ==
    \A i \in 1..Len(log) :
        IsWrite(log[i]) =>
            LET f == LastFlush(log, i)
            IN  /\ f > 0
                /\ i = f + 1 => log[i] = DISCONNECT_ALL
                /\ i = f + 2 => log[i] = unit_id + AddrBit
                /\ i > f + 2 => /\ log[f + 1] = DISCONNECT_ALL
                                /\ log[f + 2] = unit_id + AddrBit

\* C15: every Immediate and every Buffered command on a Connected driver
\* writes 0xFF and then unit_id + 128 before its first command byte, so no
\* command byte is written without the addressing byte having been written
\* since its exchange began.
C15_AddressedBeforeCommand ==
    op # "disconnect" => Addressed(bus)

C15_Witness ==
    /\ op = "get_position"
    /\ pc = "gp_y"
    /\ connected
    /\ Len(Writes(bus)) = 8
    /\ SubSeq(Writes(bus), 1, 3) = <<DISCONNECT_ALL, unit_id + AddrBit, ChX>>

\* A reply b1..bn whose last byte, and no other, has its high bit set.
IsTerminatedReply(r) ==
    /\ r # <<>>
    /\ r[Len(r)] >= AddrBit
    /\ \A i \in 1..(Len(r) - 1) : r[i] < AddrBit

\* The string it spells: the terminator with its high bit cleared.
Decode(r) ==
    [i \in 1..Len(r) |-> IF i = Len(r) THEN r[i] - AddrBit ELSE r[i]]

\* Its bytes as read one at a time, an ACK written after each but the last.
AckedReads(r) ==
    [k \in 1..(2 * Len(r) - 1) |-> IF k % 2 = 1 THEN Rd(r[(k + 1) \div 2]) ELSE ACK]

\* What the log holds after the command character ch was written.
AfterChar(log, ch) ==
    LET i == CHOOSE j \in 1..Len(log) : log[j] = ch
    IN  SubSeq(log, i + 1, Len(log))

\* C16: when the device answers an Immediate command with b1..bn-1 below 128
\* and a terminator bn >= 128 within the window, the command returns
\* chr(b1)..chr(bn-1) chr(bn - 128) in order, writes one ACK after each
\* non-terminal byte before reading the next, writes no ACK after the
\* terminator and reads nothing after it.  Stated for the X read of
\* get_position with no addressing echo still on its way.
C16_ImmediateFraming ==
    [][(connected /\ op' = "get_position" /\ pc' = "gp_y") =>
          \A e \in EchoKinds \ {"late"} : \A r \in StatusReplies(sentX) :
              (IsTerminatedReply(r) /\ GetPosition_X(e, r)) =>
                  /\ x_pos' = Decode(r)
                  /\ AfterChar(bus', ChX) = AckedReads(r)
                  /\ rx' = <<>>]_vars

C16_Witness ==
    /\ op = "get_position"
    /\ pc = "gp_y"
    /\ connected
    /\ x_pos = <<ChM, ChUnused>> \o Fmt(1000, 4)
    /\ AfterChar(bus, ChX) = AckedReads(StatusReply(ChM, 1000))

\* The receive loop of the exchange logged in log ended at its deadline: the
\* last thing the driver did was a write (the command character or an ACK),
\* not the read of a terminator.
WindowExpired(log) ==
    log # <<>> /\ IsWrite(log[Len(log)])

\* C17 (as claimed): when the 1-second window of an Immediate command expires
\* before a terminator is read, the command returns the absent result, whether
\* the response buffer is empty or holds a partial response.
C17_TimeoutReturnsNothing ==
    (op = "get_position" /\ pc = "gp_y" /\ connected /\ WindowExpired(bus))
        => x_pos = <<>>

\* The command string of the Buffered command that has just returned.
LastCmd ==
    IF AfterX THEN AxisCmd(ChX, srcX) ELSE AxisCmd(ChY, srcY)

\* How many bytes the exchange logged in log read.
ReadCount(log) == Len(log) - Len(Writes(log)) - 1

\* C18: after re-addressing, a Buffered command writes LF (once, or twice on
\* busy), then its characters c1..ck one at a time in order, then a single CR
\* last, whether none, some or all of the echoes arrive.
C18_BufferedFraming ==
    BufferedDone =>
        /\ \E lfs \in {<<LF>>, <<LF, LF>>} : Writes(bus) = Frame(unit_id, lfs, LastCmd)
        /\ bus[Len(bus)] = CR

C18_Witness ==
    /\ AfterY
    /\ ReadCount(bus) = 0
    /\ Writes(bus) = Frame(unit_id, <<LF>>, AxisCmd(ChY, 5000))

\* C19 (as claimed): no exception escapes a public operation, in any
\* reachable state; every failure is reported through the return value.
C19_NoExceptionEscapes ==
    exc = "none"

\* C20 (as claimed): the serial operations of one exchange are never
\* interleaved with those of another: between two operations of one thread's
\* exchange the wire carries no operation of the other thread.
C20_ExchangesNotInterleaved ==
    \A i \in 1..Len(wire) : \A k \in i..Len(wire) :
        wire[i][1] = wire[k][1] => \A j \in i..k : wire[j][1] = wire[i][1]

\* How many entries of log are v.
CountOf(log, v) == Cardinality({i \in 1..Len(log) : log[i] = v})

\* C21: the driver retries nothing but the Line-Feed: in every exchange the
\* disconnect-all byte and the addressing byte are written exactly once, an
\* Immediate command character exactly once, the characters of a Buffered
\* command and its CR exactly once, and connect() makes exactly one handshake
\* (followed, when it succeeds, by the one exchange of the version query).
C21_NoOtherRetry ==
    /\ op # "disconnect" =>
          /\ CountOf(bus, DISCONNECT_ALL) = CountOf(bus, FlushEv)
          /\ CountOf(bus, unit_id + AddrBit) = CountOf(bus, FlushEv)
    /\ (op = "connect" /\ pc = "done" /\ bus # <<>>) =>
          /\ CountOf(bus, FlushEv) = IF ret = "True" THEN 2 ELSE 1
          /\ CountOf(bus, ChPercent) = IF ret = "True" THEN 1 ELSE 0
    /\ (connected /\ pc \in {"waitY", "gp_y"}) =>
          /\ CountOf(bus, FlushEv) = 1
          /\ CountOf(bus, ChX) = 1
    /\ (connected /\ op = "get_position" /\ pc = "done" /\ exc = "none") =>
          /\ CountOf(bus, FlushEv) = 1
          /\ CountOf(bus, ChY) = 1
    /\ BufferedDone =>
          /\ CountOf(bus, FlushEv) = 1
          /\ CountOf(bus, CR) = 1
          /\ Len(Writes(bus)) = 2 + LFCount(bus) + Len(LastCmd) + 1

C21_Witness ==
    /\ op = "connect"
    /\ pc = "done"
    /\ ret = "False"
    /\ bus = <<FlushEv, DISCONNECT_ALL, unit_id + AddrBit>>
\* clamp(n, 1, 999) and its three digits, written out.
RefTube(n) ==
    LET c == IF n < 1 THEN 1 ELSE IF n > 999 THEN 999 ELSE n
    IN  <<ChT, ChZero + (c \div 100), ChZero + ((c \div 10) % 10), ChZero + (c % 10)>>

\* C22: for every n, move_to_tube(n) on a Connected driver writes exactly one
\* Buffered command, 'T' followed by n clamped to [1, 999] as exactly three
\* zero-padded digits, and the wait for motion completion begins only when
\* that command is complete: no poll has run and no time of the wait has
\* passed.  A driver that is not Connected writes nothing.
C22_TubeCommand ==
    [][\A n \in TubeInputs, e \in UtilEchoes, d \in UtilDevices :
          MoveToTube(n, e, d) =>
              /\ (connected /\ exc' = "none") =>
                     /\ \E lfs \in {<<LF>>, <<LF, LF>>} :
                            Writes(bus') = Frame(unit_id, lfs, RefTube(n))
                     /\ CountOf(bus', CR) = 1
                     /\ bus'[Len(bus')] = CR
              /\ ~connected => bus' = <<>>
              /\ exc' = "none" =>
                     /\ pc' = "wait"
                     /\ npolls' = 0
                     /\ elapsed' = 0
                     /\ x_pos' = <<>> /\ y_pos' = <<>>
                     /\ wtimeout' = DefaultWaitTimeout]_vars

C22_Witness ==
    /\ op = "move_to_tube"
    /\ connected
    /\ pc = "wait"
    /\ npolls = 0
    /\ sent = Frame(unit_id, <<LF>>, <<ChT, ChZero + 9, ChZero + 9, ChZero + 9>>)

\* What one axis must yield for the response p: nothing unless p has at least
\* five characters and only digits from its third on, and then their value.
RefAxis(p) ==
    IF Len(p) = 5 /\ \A i \in 3..5 : IsDigit(p[i])
    THEN <<100 * (p[3] - ChZero) + 10 * (p[4] - ChZero) + (p[5] - ChZero)>>
    ELSE IF Len(p) = 6 /\ \A i \in 3..6 : IsDigit(p[i])
    THEN <<1000 * (p[3] - ChZero) + 100 * (p[4] - ChZero) + 10 * (p[5] - ChZero)
           + (p[6] - ChZero)>>
    ELSE <<>>

RefTubeValue(r) ==
    LET D(i) == r[i] - ChZero
    IN  IF r # <<>> /\ Len(r) <= 3 /\ \A i \in 1..Len(r) : IsDigit(r[i])
        THEN IF Len(r) = 1 THEN D(1)
             ELSE IF Len(r) = 2 THEN 10 * D(1) + D(2)
             ELSE 100 * D(1) + 10 * D(2) + D(3)
        ELSE IF r = <<ChMinus, ChOne>> THEN -1
        ELSE 0

\* C24: get_tube() writes exactly one Immediate 'T' (after the addressing, and
\* followed only by the ACKs of the response) and returns the response as an
\* integer; an absent or unparsable response gives 0, and while the port is
\* open and performs I/O nothing is raised.
C24_GetTube ==
    [][\A e \in UtilEchoes, reply \in TubeReplies :
          GetTube(e, reply) =>
              /\ pc' = "done"
              /\ exc' # "none" => (connected /\ ~(link /\ ser = "open"))
              /\ ~connected => (bus' = <<>> /\ tube' = <<0>>)
              /\ (connected /\ exc' = "none") =>
                     /\ SubSeq(Writes(bus'), 1, 3) = <<DISCONNECT_ALL, unit_id + AddrBit, ChT>>
                     /\ \A i \in 4..Len(Writes(bus')) : Writes(bus')[i] = ACK
                     /\ CountOf(bus', ChT) = 1
                     /\ tube' = <<RefTubeValue(x_pos')>>]_vars

C24_Witness ==
    /\ op = "get_tube"
    /\ pc = "done"
    /\ connected
    /\ x_pos = <<ChUnused>>
    /\ tube = <<0>>

\* A command issued in the current state against a device that answers is
\* carried out as on a fresh session: the Immediate 'X' returns the response,
\* the Buffered "Y0500" is written in full and reported as sent.
NextCommandNormal ==
    LET si == SendImmediate(connected, ser, link, unit_id, rx, ChX, "ok", StatusReply(ChS, 0))
        sb == SendBuffered(connected, ser, link, unit_id, rx, AxisCmd(ChY, 5000), "ok",
                           NumDevice)
    IN  /\ si.exc = "none"
        /\ si.res = <<ChS, ChUnused, ChZero, ChZero, ChZero, ChZero>>
        /\ Writes(si.bus) = <<DISCONNECT_ALL, unit_id + AddrBit, ChX, ACK, ACK, ACK, ACK, ACK>>
        /\ sb.exc = "none"
        /\ sb.ok
        /\ Writes(sb.bus) = Frame(unit_id, <<LF>>, AxisCmd(ChY, 5000))

\* C25: a motion-completion timeout does not invalidate the session: no step
\* of a wait changes unit_id, connected or the port; the step on which the
\* wait returns False, and the return to the caller after it, leave the
\* session and the input buffer as they were; and on the still-Connected
\* driver the next command is transmitted normally.
C25_TimeoutKeepsSession ==
    [][/\ (pc \in {"wait", "waitY"} \/ pc' = "wait") => UNCHANGED session
       /\ (wret # "False" /\ wret' = "False") =>
              (pc' = "done" /\ exc' = "none" /\ UNCHANGED <<session, rx>>)
       /\ (pc = "done" /\ wret = "False") =>
              /\ pc' = "idle"
              /\ UNCHANGED <<session, rx>>
              /\ (connected /\ link /\ ser = "open") => NextCommandNormal]_vars

C25_Witness ==
    /\ op = "wait_motion_complete"
    /\ pc = "done"
    /\ wret = "False"
    /\ ret = "False"
    /\ connected
    /\ link
    /\ ser = "open"
    /\ npolls > 0

\* C26 (as claimed): after reset() has returned, the state is Connected if and
\* only if the addressing handshake that followed the reset command read back
\* unit_id + 128.
C26_ResetReconnects ==
    (op = "reset" /\ pc = "done" /\ exc = "none") =>
        (connected <=> (Len(bus) >= 4 /\ SubSeq(bus, 1, 4) = VerifiedHandshake(unit_id)))

\* 'G' and the duration of h hundredths of a second in tenths, cut off at 0
\* and at 100, as three digits.
RefBeep(h) ==
    LET c == IF h < 0 THEN 0 ELSE IF h >= 1000 THEN 100 ELSE h \div 10
    IN  <<ChG, ChZero + (c \div 100), ChZero + ((c \div 10) % 10), ChZero + (c % 10)>>

\* A call that has just sent cmd as its one Buffered command and is over.
SentOnce(cmd) ==
    /\ pc' = "done"
    /\ UNCHANGED waiting
    /\ ~connected => bus' = <<>>
    /\ (connected /\ exc' = "none") =>
           /\ \E lfs \in {<<LF>>, <<LF, LF>>} : Writes(bus') = Frame(unit_id, lfs, cmd)
           /\ CountOf(bus', CR) = 1
           /\ bus'[Len(bus')] = CR

\* C27: beep, set_divert and relax_motors each write exactly one Buffered
\* command and return without polling: beep(d) sends 'G' and d in tenths of a
\* second, clamped to [0, 100], as three zero-padded digits; set_divert sends
\* "V1" for true and "V0" for false; relax_motors sends "Mxy".
C27_Passthroughs ==
    [][\A e \in UtilEchoes, d \in UtilDevices :
          /\ \A h \in BeepInputs : Beep(h, e, d) => SentOnce(RefBeep(h))
          /\ SetDivert(TRUE, e, d) => SentOnce(<<ChV, ChOne>>)
          /\ SetDivert(FALSE, e, d) => SentOnce(<<ChV, ChZero>>)
          /\ RelaxMotors(e, d) => SentOnce(<<ChM, ChLowerX, ChLowerY>>)]_vars

C27_Witness ==
    /\ op = "beep"
    /\ pc = "done"
    /\ connected
    /\ npolls = 0
    /\ sent = Frame(unit_id, <<LF>>, <<ChG, ChOne, ChZero, ChZero>>)

\* A move of the teaching layer has been transmitted in full.
TeachMoved == AfterY /\ prev # <<>>

\* C28 (as claimed): the tracked Position and the saved Position stay within
\* [0, 999.9] mm on each axis, and after a move or goto the tracked Position
\* is the position commanded to the device.
C28_TrackedInRange ==
    /\ InRange(tx) /\ InRange(ty)
    /\ saved # <<>> => (InRange(saved[1]) /\ InRange(saved[2]))
    /\ TeachMoved => (tx = 10 * sentX /\ ty = 10 * sentY)

\* C29 (as claimed): a move or goto issued while the driver is not Connected,
\* or whose motion-completion wait timed out, leaves the tracked Position as
\* it was when the call was made, and an axis read as None leaves its tracked
\* coordinate as it was.
C29_MutatedOnlyOnSuccess ==
    [][/\ (prev' # <<>> /\ ~connected') => <<tx', ty'>> = prev'
       /\ (prev' # <<>> /\ wret' = "False") => <<tx', ty'>> = prev'
       /\ TeachAdopt =>
              /\ pos[1] = <<>> => tx' = tx
              /\ pos[2] = <<>> => ty' = ty]_vars

\* Bytes that may be waiting in the input buffer when a handshake begins:
\* none, a stale copy of the addressing byte, a stale ACK.
StaleInputs == {<<>>, <<unit_id + AddrBit>>, <<ACK>>}

\* C30: the addressing handshake flushes the buffers, writes 0xFF, waits,
\* writes unit_id + 128 (within [128, 191]), waits, and reads at most one
\* byte; it succeeds exactly when a byte was available at that moment and is
\* the addressing byte just written, and fails on an absent or different
\* byte, whatever was in the input buffer before.
C30_HandshakeOrder ==
    LET name == unit_id + AddrBit
        echoed == Len(bus) >= 4 /\ bus[4] # FlushEv /\ ~IsWrite(bus[4])
    IN  /\ name \in 128..191
        /\ (op = "connect" /\ pc = "done" /\ bus # <<>>) =>
               /\ Len(bus) >= 3
               /\ SubSeq(bus, 1, 3) = <<FlushEv, DISCONNECT_ALL, name>>
               /\ ~echoed => (Len(bus) = 3 /\ ret = "False")
               /\ echoed => (ret = "True" <=> bus[4] = Rd(name))
               /\ Len(bus) > 4 => (ret = "True" /\ bus[5] = FlushEv)
        /\ \A e \in EchoKinds, q \in StaleInputs :
               LET cs == ConnectSlave("open", TRUE, unit_id, q, e)
               IN  /\ cs.exc = "none"
                   /\ cs.t = AddrWait + AddrWait
                   /\ cs.ok <=> e = "ok"
                   /\ cs.bus = <<FlushEv, DISCONNECT_ALL, name>>
                                 \o (CASE e = "ok" -> <<Rd(name)>>
                                       [] e = "wrong" -> <<Rd(WrongByte(name))>>
                                       [] OTHER -> <<>>)

C30_Witness ==
    /\ op = "connect"
    /\ pc = "done"
    /\ unit_id = 63
    /\ ret = "False"
    /\ bus = <<FlushEv, DISCONNECT_ALL, 191, Rd(190)>>

\* C31: every handshake begins by flushing the buffers, so whatever is waiting
\* unread when it begins has no part in it: the handshake of connect() and of
\* every Immediate and Buffered command reads, returns and leaves behind
\* exactly what it would with an empty input buffer.
C31_FlushedBeforeHandshake ==
    (ser = "open" /\ link) =>
        \A e \in EchoKinds :
            /\ ConnectSlave(ser, link, unit_id, rx, e)
                   = ConnectSlave(ser, link, unit_id, <<>>, e)
            /\ \A reply \in StatusReplies(0) :
                   SendImmediate(connected, ser, link, unit_id, rx, ChX, e, reply)
                       = SendImmediate(connected, ser, link, unit_id, <<>>, ChX, e, reply)
            /\ \A d \in BufDevices :
                   SendBuffered(connected, ser, link, unit_id, rx, AxisCmd(ChY, 5000), e, d)
                       = SendBuffered(connected, ser, link, unit_id, <<>>, AxisCmd(ChY, 5000), e, d)

\* The X read of get_position() has left a whole response unread, and the Y
\* read is about to begin.
C31_Witness ==
    /\ op = "get_position"
    /\ pc = "gp_y"
    /\ connected
    /\ link
    /\ Len(rx) = 6
    /\ rx[1] = ChS

\* C32: every Immediate command terminates: whether the device sends nothing,
\* bytes without the high bit for ever, or a terminator, the receive loop is
\* never entered past its deadline and always comes to its end; and every
\* wait for motion completion comes to its end.
C32_LoopsTerminate ==
    /\ [](pc = "recv" => elapsed < ImmTimeout + ImmSleep)
    /\ (pc = "recv") ~> (pc = "done")
    /\ (pc \in {"wait", "waitY"}) ~> (pc = "done")

\* The deadline has ended a receive loop through which the device kept
\* sending bytes without the high bit.
C32_Witness ==
    /\ op = "get_version"
    /\ pc = "done"
    /\ elapsed >= ImmTimeout
    /\ Len(x_pos) >= 100
    /\ \A i \in 1..Len(x_pos) : x_pos[i] < AddrBit

MotionOps == {"move_to_xy", "move_to_tube"}

\* The steps a motion call may take: from Idle through its Buffered commands
\* (CommandSent) into the polling loop, and out of it by completion or
\* timeout.
MotionSteps ==
    {<<"idle", "xy_y">>, <<"xy_y", "wait">>, <<"idle", "wait">>,
     <<"wait", "waitY">>, <<"waitY", "wait">>, <<"waitY", "done">>, <<"wait", "done">>,
     <<"done", "idle">>}

\* C33: a motion call goes Idle -> CommandSent -> Polling -> Complete or
\* TimedOut -> Idle.  While its Buffered commands are being sent no status
\* poll is made; polling starts only when each of them has been written up to
\* its CR; once polling has started no LF or CR is written; and a call that no
\* exception ends returns from the polling loop with exactly one of the two
\* outcomes.
C33_MotionPhases ==
    [][(op' \in MotionOps /\ exc' = "none" /\ (pc # "idle" \/ pc' # "idle")) =>
          /\ <<pc, pc'>> \in MotionSteps
          /\ pc \in {"idle", "xy_y"} =>
                 /\ npolls' = 0 /\ elapsed' = 0
                 /\ x_pos' = <<>> /\ y_pos' = <<>>
                 /\ wret' = "None"
          /\ (pc \in {"idle", "xy_y"} /\ pc' = "wait" /\ connected) =>
                 /\ sent'[Len(sent')] = CR
                 /\ CountOf(sent', CR) = IF op' = "move_to_xy" THEN 2 ELSE 1
          /\ pc \in {"wait", "waitY"} =>
                 /\ CountOf(bus', CR) = 0
                 /\ CountOf(bus', LF) = 0
                 /\ UNCHANGED device
          /\ pc' = "done" =>
                 /\ pc = "waitY" => wret' = "True"
                 /\ pc = "wait" => wret' = "False"]_vars

C33_Witness ==
    /\ op = "move_to_tube"
    /\ pc = "done"
    /\ exc = "none"
    /\ connected
    /\ wret = "True"
    /\ npolls = 1

\* C34 (as claimed): whenever the state is Connected the driver holds an open
\* serial handle.
C34_ConnectedHasOpenPort ==
    connected => ser = "open"

BufferedOps == {"move_to_xy", "move_to_tube", "beep", "set_divert", "relax_motors"}

\* C35: while the state is Disconnected an Immediate command returns None and
\* a Buffered command returns False, and neither writes, flushes or reads:
\* the log of the exchange is empty and the input buffer untouched.  So
\* get_position() returns (None, None), get_tube() 0 and get_version(), which
\* is the Immediate '%', None.
C35_DisconnectedSendsNothing ==
    [][/\ ~connected =>
              \A e \in EchoKinds :
                  /\ \A ch \in {ChX, ChY, ChT, ChPercent}, reply \in StatusReplies(0) :
                         SendImmediate(connected, ser, link, unit_id, rx, ch, e, reply)
                             = [exc |-> "none", bus |-> <<>>, res |-> <<>>, rx |-> rx, t |-> 0]
                  /\ \A d \in BufDevices :
                         SendBuffered(connected, ser, link, unit_id, rx, RelaxCmd, e, d)
                             = [exc |-> "none", bus |-> <<>>, ok |-> FALSE, rx |-> rx, t |-> 0]
       /\ (~connected /\ pc # "done" /\ pc' # "idle"
             /\ op' \in BufferedOps \cup {"get_tube", "get_position"}) =>
              /\ bus' = <<>>
              /\ exc' = "none"
              /\ UNCHANGED <<session, rx, device>>
              /\ op' = "get_tube" => tube' = <<0>>
              /\ (op' = "get_position" /\ pc' = "done") => pos' = <<<<>>, <<>>>>
              /\ (op' \in BufferedOps /\ pc \in {"idle", "xy_y"}) => bret' = "False"
              /\ pc \in {"wait", "waitY"} => x_pos' = <<>> /\ y_pos' = <<>>]_vars

C35_Witness ==
    /\ ~connected
    /\ op = "get_tube"
    /\ pc = "done"
    /\ bus = <<>>
    /\ tube = <<0>>

\* The log of an exchange whose re-addressing read back no echo, or another
\* byte than unit_id + 128.
EchoFailed(log) ==
    /\ Len(log) >= 3
    /\ SubSeq(log, 1, 3) = <<FlushEv, DISCONNECT_ALL, unit_id + AddrBit>>
    /\ Len(log) > 3 => log[4] # Rd(unit_id + AddrBit)

\* C36: the echo check of the re-addressing inside a command decides nothing:
\* with the echo absent or mismatched the Immediate character, or the LF,
\* command string and CR, are written as with a good echo, the same response
\* is returned, a Buffered command returns True, and the state stays
\* Connected.
C36_EchoCheckIgnored ==
    [][/\ (connected /\ ser = "open" /\ link /\ pc = "idle") =>
              \A e \in {"none", "wrong"} :
                  /\ \A reply \in StatusReplies(0) :
                         LET bad == SendImmediate(connected, ser, link, unit_id, rx, ChX, e, reply)
                             good == SendImmediate(connected, ser, link, unit_id, rx, ChX, "ok",
                                                   reply)
                         IN  /\ bad.exc = "none"
                             /\ Writes(bad.bus) = Writes(good.bus)
                             /\ Writes(bad.bus)[3] = ChX
                             /\ bad.res = good.res
                  /\ \A d \in UtilDevices :
                         LET bad == SendBuffered(connected, ser, link, unit_id, rx,
                                                 AxisCmd(ChY, 5000), e, d)
                             good == SendBuffered(connected, ser, link, unit_id, rx,
                                                  AxisCmd(ChY, 5000), "ok", d)
                         IN  /\ bad.exc = "none"
                             /\ Writes(bad.bus) = Writes(good.bus)
                             /\ bad.ok
       /\ (connected /\ op' \in CommandOps /\ exc' = "none" /\ EchoFailed(bus')) =>
              /\ connected'
              /\ UNCHANGED <<unit_id, ser>>
              /\ pc \in {"idle", "xy_y"} /\ op' = "move_to_xy" =>
                     /\ bret' = "True"
                     /\ Writes(bus')[Len(Writes(bus'))] = CR
              /\ pc \in {"wait", "waitY", "gp_y"} \/ op' = "get_position" =>
                     Writes(bus')[3] \in {ChX, ChY}]_vars

\* The X read of get_position() got its whole response although the
\* re-addressing read back no echo.
C36_Witness ==
    /\ op = "get_position"
    /\ pc = "gp_y"
    /\ connected
    /\ Len(bus) > 4
    /\ bus[4] = ChX
    /\ Len(x_pos) = 6

\* Every character of the string x is a byte of the reply r, in its place.
FromReply(x, r) ==
    /\ Len(x) <= Len(r)
    /\ \A i \in 1..Len(x) : x[i] = r[i] \/ x[i] = r[i] - AddrBit

\* C37 (as claimed): the string an Immediate command returns holds only bytes
\* the device sent in reply to the command character, also when the
\* addressing echo arrives after the echo check.  Stated for the X read of
\* get_position.
C37_ResponseOnlyFromReply ==
    [][(connected /\ op' = "get_position" /\ pc' = "gp_y") =>
          \A e \in EchoKinds : \A r \in StatusReplies(sentX) :
              GetPosition_X(e, r) => FromReply(x_pos', r)]_vars

\* C38 (as claimed): every coordinate get_position() returns, if not None,
\* lies within [0, 999.9] mm, whatever the device responded.
C38_PositionInRange ==
    (op = "get_position" /\ pc = "done" /\ exc = "none") =>
        \A i \in {1, 2} : pos[i] # <<>> => (pos[i][1] >= 0 /\ pos[i][1] <= UnitsMax)

\* C39: move_to_xy and move_to_tube called on a Disconnected driver write no
\* byte to the bus, every poll of the wait that follows answers None, the
\* wait ends only once its full default timeout has elapsed, and the call
\* then returns None with no exception and no other sign of failure.
C39_OfflineMoveWaitsInFull ==
    (op \in MotionOps /\ pc # "idle" /\ ~connected) =>
        /\ bus = <<>>
        /\ sent = <<>>
        /\ x_pos = <<>>
        /\ y_pos = <<>>
        /\ exc = "none"
        /\ ret = "None"
        /\ wret # "True"
        /\ pc = "done" => (elapsed >= DefaultWaitTimeout /\ wret = "False")

C39_Witness ==
    /\ op = "move_to_xy"
    /\ ~connected
    /\ pc = "done"
    /\ elapsed >= DefaultWaitTimeout
    /\ bret = "False"

\* ------------------------------------------------ the auto-collection loop
\* main() of the auto-collection program: it loads the positions file,
\* connects, asks the operator to start, and then runs cycles of classify,
\* wait, move and ask whether to go on, inside try / except KeyboardInterrupt /
\* finally.  apc is where main() is: "off", "connect", "confirm" (the start
\* prompt), "classify", "wait", "step3", "moving", "next" (the prompt after a
\* cycle), "finally", and at the end "refused" (connect() failed) or "exited".

\* The labels get_uv_classification() can return: metallic, semiconducting
\* and waste.
Labels == {"metal", "semi", "waste"}
Waste == "waste"

\* The Position a taught positions file holds for a label, in hundredths.
StoredPosition(label) ==
    CASE label = "metal" -> <<1000, 2000>>
      [] label = "semi" -> <<5000, 2000>>
      [] OTHER -> <<12000, 0>>

\* How many cycles are followed.
MaxCycles == 2

\* main() up to gilson.connect(): the positions file exists and holds any set
\* of labels.
AutoLoad ==
    /\ apc = "off"
    /\ pc = "idle"
    /\ apc' = "connect"
    /\ positions' \in SUBSET Labels
    /\ UNCHANGED <<threads, tube, tx, ty, saved, prev, cycle_count, classification,
                   disconnects, moved, session, rx, device, pc, op, nth, waiting, result>>

\* gilson.connect()
AutoConnect ==
    /\ apc = "connect"
    /\ \E e \in {"ok", "none"} : Connect(TRUE, e, "ok", <<50, 48 + AddrBit>>)

\* Its result: main() returns when it is False and goes to the start prompt
\* when it is True.
AutoConnected ==
    /\ apc = "connect"
    /\ op = "connect"
    /\ apc' = IF ret = "True" THEN "confirm" ELSE "refused"
    /\ Finish
    /\ UNCHANGED <<tx, ty, cycle_count, classification, positions, disconnects, moved>>

\* What a step of main() that only goes on leaves as it was.
AutoRest ==
    <<threads, tube, tx, ty, saved, prev, cycle_count, classification, positions,
      disconnects, moved, session, rx, device, pc, op, nth, waiting, result>>

\* The operator presses Enter at the start prompt: cycle_count = 1 and the
\* try block is entered.
AutoConfirm ==
    /\ apc = "confirm"
    /\ apc' = "classify"
    /\ UNCHANGED AutoRest

\* Ctrl-C at the start prompt: input() raises KeyboardInterrupt outside the
\* try block, and main() is left at once.
AutoInterruptConfirm ==
    /\ apc = "confirm"
    /\ apc' = "exited"
    /\ UNCHANGED AutoRest

\* Step 1: get_uv_classification()
AutoClassify ==
    /\ apc = "classify"
    /\ apc' = "wait"
    /\ classification' \in Labels
    /\ moved' = <<>>
    /\ UNCHANGED <<threads, tube, tx, ty, saved, prev, cycle_count, positions, disconnects,
                   session, rx, device, pc, op, nth, waiting, result>>

\* Step 2: safe_wait(WAIT_TIME) runs out.
AutoWait ==
    /\ apc = "wait"
    /\ apc' = "step3"
    /\ UNCHANGED AutoRest

\* Step 3: the label whose position is moved to, <<>> when there is no move.
AutoTarget ==
    IF classification \in positions THEN <<classification>>
    ELSE IF Waste \in positions THEN <<Waste>>
    ELSE <<>>

\* Step 3 when there is a position to go to: gilson.move_to_xy(pos['x'], pos['y'])
AutoMove ==
    /\ apc = "step3"
    /\ AutoTarget # <<>>
    /\ LET p == StoredPosition(AutoTarget[1])
       IN  /\ MoveToXY_X(p[1], p[2], "ok", NumDevice)
           /\ moved' = Append(moved, p)
    /\ apc' = "moving"
    /\ UNCHANGED <<tx, ty, prev, cycle_count, classification, positions, disconnects>>

\* move_to_xy has returned: step 4 counts the cycle.  An exception it raised
\* passes the except clause and reaches finally.
AutoMoved ==
    /\ apc = "moving"
    /\ apc' = IF exc = "none" THEN "next" ELSE "finally"
    /\ cycle_count' = IF exc = "none" THEN cycle_count + 1 ELSE cycle_count
    /\ Finish
    /\ UNCHANGED <<tx, ty, classification, positions, disconnects, moved>>

\* Step 3 when neither the label nor waste has a position, and step 4.
AutoSkip ==
    /\ apc = "step3"
    /\ AutoTarget = <<>>
    /\ apc' = "next"
    /\ cycle_count' = cycle_count + 1
    /\ UNCHANGED <<threads, tube, tx, ty, saved, prev, classification, positions, disconnects,
                   moved, session, rx, device, pc, op, nth, waiting, result>>

\* The prompt after a cycle: 'q' breaks out of the loop, anything else starts
\* the next cycle.
AutoNext(quit) ==
    /\ apc = "next"
    /\ ~quit => cycle_count <= MaxCycles
    /\ apc' = IF quit THEN "finally" ELSE "classify"
    /\ UNCHANGED <<threads, tube, tx, ty, saved, prev, cycle_count, classification, positions,
                   disconnects, moved, session, rx, device, pc, op, nth, waiting, result>>

\* Ctrl-C inside the try block, at a prompt, during the wait or during the
\* move: the call under way is abandoned, the except clause takes the
\* KeyboardInterrupt and finally follows.
AutoInterrupt ==
    /\ apc \in {"classify", "wait", "step3", "moving", "next"}
    /\ pc # "done"
    /\ apc' = "finally"
    /\ pc' = "idle"
    /\ UNCHANGED <<threads, tube, tx, ty, saved, prev, cycle_count, classification, positions,
                   disconnects, moved, session, rx, device, op, nth, waiting, result>>

\* finally: gilson.disconnect(), after which main() is over.
AutoFinally ==
    /\ apc = "finally"
    /\ apc' = "exited"
    /\ disconnects' = disconnects + 1
    /\ DisconnectCall
    /\ UNCHANGED <<tube, tx, ty, saved, prev, cycle_count, classification, positions, moved>>

\* The serial device fails or recovers while main() is between two calls.
AutoLinkChange ==
    /\ apc \in {"classify", "wait", "step3", "next"}
    /\ LinkChange

AutoMoveToXY_Y ==
    /\ apc = "moving"
    /\ MoveToXY_Y("ok", NumDevice)

AutoWaitPollX ==
    /\ apc = "moving"
    /\ NumWaitPollX

AutoWaitPollY ==
    /\ apc = "moving"
    /\ NumWaitPollY

NextAuto ==
    \/ AutoLoad
    \/ AutoConnect
    \/ AutoConnected
    \/ AutoConfirm
    \/ AutoInterruptConfirm
    \/ AutoClassify
    \/ AutoWait
    \/ AutoMove
    \/ AutoMoveToXY_Y
    \/ AutoWaitPollX
    \/ AutoWaitPollY
    \/ AutoMoved
    \/ AutoSkip
    \/ AutoNext(TRUE)
    \/ AutoNext(FALSE)
    \/ AutoInterrupt
    \/ AutoFinally
    \/ AutoLinkChange

SpecAuto == Init /\ [][NextAuto]_vars

\* main() has ended after a connect() that succeeded only if disconnect() was
\* called exactly once, and it never calls it more than once.
DisconnectOnEveryExit ==
    /\ disconnects <= 1
    /\ apc = "exited" => disconnects = 1
    /\ apc = "refused" => disconnects = 0

\* A cycle issues at most one move_to_xy, and once step 3 is over it went to
\* the stored position of the label, or else of waste, or nowhere.
OneMovePerCycle ==
    /\ Len(moved) <= 1
    /\ apc \in {"moving", "next"} =>
          moved = (IF classification \in positions
                   THEN <<StoredPosition(classification)>>
                   ELSE IF "waste" \in positions
                        THEN <<StoredPosition("waste")>>
                        ELSE <<>>)
    /\ (apc = "moving" /\ pc # "idle") => op = "move_to_xy"

\* C40 (as claimed): in the auto-collection loop, once connect() has
\* succeeded, every way out of main() calls disconnect() exactly once; and each
\* cycle issues at most one move_to_xy, to the stored position of the
\* classified label or else to the stored waste position.
C40_DisconnectOnceAndOneMove ==
    DisconnectOnEveryExit /\ OneMovePerCycle

====
